---- MODULE Spec2Model ----
(***************************************************************************)
(* A model of extract_nc_tenders.py: the tender scraper's fingerprint,     *)
(* HTTP retry helper, candidate-link discovery, date extraction, detail    *)
(* page extraction and the driver loop.                                    *)
(*                                                                         *)
(* Text is modelled as a sequence of characters, each character a string   *)
(* of length one; a character outside ASCII is written by its code point   *)
(* ("U00E9" is e-acute).  Python's None is the value None below.           *)
(***************************************************************************)
EXTENDS Integers, Sequences, FiniteSets, TLC

VARIABLES
    \* ---- stable_hash: two calls side by side ----
    hpartsA, hpartsB,   \* the six parts handed to each call
    hidx,               \* number of parts already fed
    hfedA, hfedB,       \* the bytes fed to the SHA-256 object so far
    \* ---- safe_get ----
    gretries,           \* argument retries
    gattempt,           \* loop variable attempt
    gpc,                \* "get" | "sleep" | "done"
    glog,               \* outcome of each session.get, in order
    gslept,             \* the sleeps made, in order
    gret,               \* the returned value
    \* ---- parse_dates_from_text ----
    dtext,              \* argument text
    dtoday,             \* the current date
    dpc,                \* "findall" | "loop" | "done"
    dpatt,              \* the matches of the generic pattern
    dk,                 \* number of matches already handled
    dparsed,            \* list parsed
    dfallback,          \* whether the labeled search was entered
    dret,               \* the returned pair (pub, lim)
    \* ---- find_candidate_links ----
    lbase,              \* argument listing_url
    lpage,              \* the listing page served
    lpc,                \* "fetch" | "loop" | "done" | "failed" | "raised"
    li,                 \* index of the next anchor
    lstate,             \* candidates, seen, and the branch of each candidate
    lret,               \* the returned list
    \* ---- parse_detail ----
    purl,               \* argument detail_url
    pdoc,               \* the document served for it
    pctype,             \* the Content-Type header served, or None
    ptoday,             \* the current date
    ppc,                \* "fetch" | "absent" | "pdf" | "html"
    presp,              \* the value safe_get returned
    pres,               \* the returned record
    \* ---- main ----
    mweb,               \* the listing page served for each source
    mrun,               \* which run of the script this is
    mtoday,             \* the current date of the run
    mpc,                \* "start" | "source" | "discover" | "cand" | "done" | "aborted"
    msrc,               \* index in START_SOURCES of the current source
    mcand,              \* cand, the candidates of the current source
    mk,                 \* index in cand of the next candidate
    mdisc,              \* the lists find_candidate_links returned in this run
    mlog,               \* one entry per iteration of the loop over cand
    msources,           \* table urls_a_checker
    mstore,             \* table appels_offres
    mabort,             \* the call whose exception ended the run, or "none"
    mfaults             \* failures so far: fetches that obtained nothing,
                        \* calls that raised

hashVars == <<hpartsA, hpartsB, hidx, hfedA, hfedB>>
getVars == <<gretries, gattempt, gpc, glog, gslept, gret>>
datesVars == <<dtext, dtoday, dpc, dpatt, dk, dparsed, dfallback, dret>>
linksVars == <<lbase, lpage, lpc, li, lstate, lret>>
detailVars == <<purl, pdoc, pctype, ptoday, ppc, presp, pres>>
driverVars == <<mweb, mrun, mtoday, mpc, msrc, mcand, mk, mdisc, mlog, msources,
                mstore, mabort, mfaults>>
vars == <<hashVars, getVars, datesVars, linksVars, detailVars, driverVars>>
notHashVars == <<getVars, datesVars, linksVars, detailVars, driverVars>>
notGetVars == <<hashVars, datesVars, linksVars, detailVars, driverVars>>
notDatesVars == <<hashVars, getVars, linksVars, detailVars, driverVars>>
notLinksVars == <<hashVars, getVars, datesVars, detailVars, driverVars>>
notDetailVars == <<hashVars, getVars, datesVars, linksVars, driverVars>>
notDriverVars == <<hashVars, getVars, datesVars, linksVars, detailVars>>

(***************************************************************************)
(* Characters and strings                                                  *)
(***************************************************************************)
\* F applied to the value of e, e being evaluated once
Bind(e, F(_)) == CHOOSE r \in {F(v) : v \in {e}} : TRUE

\* the sequences ps[1], ps[2], ... one after the other: every one is padded
\* to the length of the longest, and the padding is then dropped
Flatten(ps) ==
    Bind(CHOOSE n \in {Len(ps[j]) : j \in DOMAIN ps} \cup {0} :
             \A j \in DOMAIN ps : Len(ps[j]) <= n, LAMBDA w :
    Bind(SelectSeq(<<>> \o [k \in 1..(Len(ps) * w) |->
                       IF ((k - 1) % w) + 1 <= Len(ps[((k - 1) \div w) + 1])
                       THEN <<ps[((k - 1) \div w) + 1][((k - 1) % w) + 1]>>
                       ELSE <<>>],
                   LAMBDA x : x # <<>>), LAMBDA kept :
        <<>> \o [k \in 1..Len(kept) |-> kept[k][1]]))

\* Flatten of the value of parts
Concat(parts) == CHOOSE r \in {Flatten(ps) : ps \in {<<>> \o parts}} : TRUE

None == <<"<None>">>
\* None where a response object is expected
NoResponse == [absent |-> TRUE]

\* printable ASCII in code order, from 32 (space) to 126
AsciiTable ==
    <<" ", "!", "\"", "#", "$", "%", "&", "'", "(", ")", "*", "+", ",", "-",
      ".", "/", "0", "1", "2", "3", "4", "5", "6", "7", "8", "9", ":", ";",
      "<", "=", ">", "?", "@", "A", "B", "C", "D", "E", "F", "G", "H", "I",
      "J", "K", "L", "M", "N", "O", "P", "Q", "R", "S", "T", "U", "V", "W",
      "X", "Y", "Z", "[", "\\", "]", "^", "_", "U0060", "a", "b", "c", "d", "e",
      "f", "g", "h", "i", "j", "k", "l", "m", "n", "o", "p", "q", "r", "s",
      "t", "u", "v", "w", "x", "y", "z", "{", "|", "}", "~">>

Digits == {"0", "1", "2", "3", "4", "5", "6", "7", "8", "9"}
LowerAscii == {"a", "b", "c", "d", "e", "f", "g", "h", "i", "j", "k", "l", "m",
               "n", "o", "p", "q", "r", "s", "t", "u", "v", "w", "x", "y", "z"}
UpperAscii == {"A", "B", "C", "D", "E", "F", "G", "H", "I", "J", "K", "L", "M",
               "N", "O", "P", "Q", "R", "S", "T", "U", "V", "W", "X", "Y", "Z"}
\* the whitespace str.strip() and \s know, among the characters used here
Whitespace == {" ", "\t", "\n", "\r", "\f"}

\* the UTF-8 encoding of one character
Utf8Char(c) ==
    CASE c = "\t" -> <<9>>
      [] c = "\n" -> <<10>>
      [] c = "\f" -> <<12>>
      [] c = "\r" -> <<13>>
      [] c = "U00E9" -> <<195, 169>>
      [] c = "U00F4" -> <<195, 180>>
      [] c = "U00FB" -> <<195, 187>>
      [] c = "U00EE" -> <<195, 174>>
      [] c = "U00C9" -> <<195, 137>>
      [] c = "U00D4" -> <<195, 148>>
      [] c = "U00DB" -> <<195, 155>>
      [] c = "U00CE" -> <<195, 142>>
      [] c = "U00B0" -> <<194, 176>>
      [] c = "U00E8" -> <<195, 168>>
      [] c = "U00C8" -> <<195, 136>>
      [] c = "U2013" -> <<226, 128, 147>>
      [] c = "U2014" -> <<226, 128, 148>>
      [] c = "U2019" -> <<226, 128, 153>>
      [] OTHER -> <<31 + (CHOOSE i \in 1..Len(AsciiTable) : AsciiTable[i] = c)>>

\* str.encode("utf-8")
Utf8(s) == Bind(s, LAMBDA v : Concat([i \in 1..Len(v) |-> Utf8Char(v[i])]))

\* the least index i of lo..hi with (s[i] \in cs) = want, or hi+1
FirstWhere(s, lo, hi, cs, want) ==
    Bind(s, LAMBDA v :
        IF \E i \in lo..hi : (v[i] \in cs) = want
        THEN CHOOSE i \in lo..hi :
                 /\ (v[i] \in cs) = want
                 /\ \A j \in lo..(i - 1) : (v[j] \in cs) # want
        ELSE IF lo > hi THEN lo ELSE hi + 1)

\* the greatest index i of lo..hi with (s[i] \in cs) = want, or lo-1
LastWhere(s, lo, hi, cs, want) ==
    Bind(s, LAMBDA v :
        IF \E i \in lo..hi : (v[i] \in cs) = want
        THEN CHOOSE i \in lo..hi :
                 /\ (v[i] \in cs) = want
                 /\ \A j \in (i + 1)..hi : (v[j] \in cs) # want
        ELSE IF lo > hi THEN hi ELSE lo - 1)

LStrip(s) ==
    Bind(s, LAMBDA v : SubSeq(v, FirstWhere(v, 1, Len(v), Whitespace, FALSE), Len(v)))
RStrip(s) ==
    Bind(s, LAMBDA v : SubSeq(v, 1, LastWhere(v, 1, Len(v), Whitespace, FALSE)))

\* str.strip()
Strip(s) == RStrip(LStrip(s))

\* Python's `p or ""` for an Optional[str]
OrEmpty(p) == IF p = None THEN <<>> ELSE p

(***************************************************************************)
(* stable_hash                                                             *)
(***************************************************************************)
\* the separator byte b"|"
SepByte == <<124>>

\* one iteration of the loop: h.update(strip(p or "")), h.update(b"|")
HashUpdate(fed, p) == fed \o Utf8(Strip(OrEmpty(p))) \o SepByte

RECURSIVE FedBytes(_)
FedBytes(parts) ==
    IF parts = <<>> THEN <<>>
    ELSE HashUpdate(<<>>, Head(parts)) \o FedBytes(Tail(parts))

\* SHA-256 is collision resistant: two digests are equal exactly when the
\* bytes fed are equal, so the digest is represented by the bytes fed.
stable_hash(parts) == FedBytes(parts)

\* ---- the inputs of the fingerprint runs ----
S_a == <<"a">>
S_b == <<"b">>
S_a_bar == <<"a", "|">>
S_bar_b == <<"|", "b">>
S_sp_a == <<" ", "a">>
S_e_acute == <<"U00E9">>
S_url == <<"h", "t", "t", "p", ":", "/", "/", "x", "/", "1">>
S_d1 == <<"2", "0", "2", "4", "-", "0", "1", "-", "1", "0">>

HashFieldVals == {None, <<>>, S_a, S_b, S_a_bar, S_bar_b, S_sp_a, S_e_acute}

\* (titre, organisme, detail_url, date_publication, date_limite, extrait)
HashTuples ==
    {<<t, o, S_url, None, d, None>> : t \in HashFieldVals, o \in HashFieldVals,
                                       d \in {None, S_d1}}

HashIdle ==
    /\ hpartsA = <<>> /\ hpartsB = <<>> /\ hidx = 0
    /\ hfedA = <<>> /\ hfedB = <<>>

InitHash ==
    /\ hpartsA \in HashTuples
    /\ hpartsB \in HashTuples
    /\ hidx = 0
    /\ hfedA = <<>>
    /\ hfedB = <<>>

\* one iteration of `for p in parts`, in each of the two calls
HashStep ==
    /\ hidx < Len(hpartsA)
    /\ hidx' = hidx + 1
    /\ hfedA' = HashUpdate(hfedA, hpartsA[hidx + 1])
    /\ hfedB' = HashUpdate(hfedB, hpartsB[hidx + 1])
    /\ UNCHANGED <<hpartsA, hpartsB>>
    /\ UNCHANGED notHashVars

HashDone == hpartsA # <<>> /\ hidx = Len(hpartsA)

(***************************************************************************)
(* safe_get                                                                *)
(***************************************************************************)
\* the default of the parameter retries
DefaultRetries == 2
MaxRetriesArg == 3

\* what one session.get can do: answer with a status code, or raise
\* (a transport error, or the per-request timeout)
StatusCodes == {200, 404, 500}
Answered(code) == [kind |-> "response", status |-> code]
Raised == [kind |-> "raised"]
Is200(o) == o.kind = "response" /\ o.status = 200

\* a wait that does not grow with the attempt
SleepForConstant(attempt) == 1

\* time.sleep(1 + attempt)
SleepFor(attempt) == 1 + attempt

GetIdle ==
    /\ gretries = 0 /\ gattempt = 0 /\ gpc = "idle"
    /\ glog = <<>> /\ gslept = <<>> /\ gret = NoResponse

InitGet ==
    /\ gretries \in 0..MaxRetriesArg
    /\ gattempt = 0
    /\ gpc = "get"
    /\ glog = <<>>
    /\ gslept = <<>>
    /\ gret = NoResponse

\* r = session.get(...) answers 200: return r
GetOk ==
    /\ gpc = "get"
    /\ gattempt < gretries + 1
    /\ glog' = Append(glog, Answered(200))
    /\ gret' = [status |-> 200, attempt |-> gattempt]
    /\ gpc' = "done"
    /\ UNCHANGED <<gretries, gattempt, gslept>>
    /\ UNCHANGED notGetVars

\* r = session.get(...) answers another status: fall through to the sleep
GetNon200 ==
    /\ gpc = "get"
    /\ gattempt < gretries + 1
    /\ \E st \in StatusCodes \ {200} : glog' = Append(glog, Answered(st))
    /\ gpc' = "sleep"
    /\ UNCHANGED <<gretries, gattempt, gslept, gret>>
    /\ UNCHANGED notGetVars

\* where control goes when session.get raises: `except Exception: pass`
OnGetException == "sleep"

\* session.get raises
GetRaise ==
    /\ gpc = "get"
    /\ gattempt < gretries + 1
    /\ glog' = Append(glog, Raised)
    /\ gpc' = OnGetException
    /\ UNCHANGED <<gretries, gattempt, gslept, gret>>
    /\ UNCHANGED notGetVars

\* time.sleep(1 + attempt), then the next iteration
GetSleep ==
    /\ gpc = "sleep"
    /\ gslept' = Append(gslept, SleepFor(gattempt))
    /\ gattempt' = gattempt + 1
    /\ gpc' = "get"
    /\ UNCHANGED <<gretries, glog, gret>>
    /\ UNCHANGED notGetVars

\* the loop is exhausted: return None
GetGiveUp ==
    /\ gpc = "get"
    /\ ~(gattempt < gretries + 1)
    /\ gret' = NoResponse
    /\ gpc' = "done"
    /\ UNCHANGED <<gretries, gattempt, glog, gslept>>
    /\ UNCHANGED notGetVars

NextGet == GetOk \/ GetNon200 \/ GetRaise \/ GetSleep \/ GetGiveUp

NextHash == HashStep

(***************************************************************************)
(* Regular expressions, as Python's re matches them: a backtracking        *)
(* matcher that lists, for a pattern and a start position, the positions   *)
(* where a match can end, in the order the backtracking tries them.  Every *)
(* pattern of the program is compiled with re.IGNORECASE.                  *)
(***************************************************************************)
\* accented letters of the model's alphabet: lower case, and their capitals
AccentedLower == {"U00E9", "U00F4", "U00FB", "U00EE", "U00E8"}
AccentedUpper == {"U00C9", "U00D4", "U00DB", "U00CE", "U00C8"}

LowerTable == <<"a", "b", "c", "d", "e", "f", "g", "h", "i", "j", "k", "l", "m",
                "n", "o", "p", "q", "r", "s", "t", "u", "v", "w", "x", "y", "z",
                "U00E9", "U00F4", "U00FB", "U00EE", "U00E8">>
UpperTable == <<"A", "B", "C", "D", "E", "F", "G", "H", "I", "J", "K", "L", "M",
                "N", "O", "P", "Q", "R", "S", "T", "U", "V", "W", "X", "Y", "Z",
                "U00C9", "U00D4", "U00DB", "U00CE", "U00C8">>

\* str.lower() on one character
LowerChar(c) ==
    IF \E i \in 1..Len(UpperTable) : UpperTable[i] = c
    THEN LowerTable[CHOOSE i \in 1..Len(UpperTable) : UpperTable[i] = c]
    ELSE c

UpperChar(c) ==
    IF \E i \in 1..Len(LowerTable) : LowerTable[i] = c
    THEN UpperTable[CHOOSE i \in 1..Len(LowerTable) : LowerTable[i] = c]
    ELSE c

\* str.lower()
Lower(s) == Bind(s, LAMBDA v : <<>> \o [i \in 1..Len(v) |-> LowerChar(v[i])])

\* \w: letters, digits and the underscore
WordChars == LowerAscii \cup UpperAscii \cup Digits \cup {"_"}
                \cup AccentedLower \cup AccentedUpper

\* the characters c with c, c.lower() or c.upper() in S: what the class [S]
\* matches under re.IGNORECASE
IgnoreCase(S) == {c \in S \cup UpperAscii \cup LowerAscii \cup AccentedUpper \cup AccentedLower :
                     c \in S \/ LowerChar(c) \in S \/ UpperChar(c) \in S}

\* pattern nodes
Cls(S) == [k |-> "cls", set |-> IgnoreCase(S), neg |-> FALSE]
NotCls(S) == [k |-> "cls", set |-> IgnoreCase(S), neg |-> TRUE]
Rep(S, lo, hi) ==
    [k |-> "rep", set |-> IgnoreCase(S), neg |-> FALSE, lo |-> lo, hi |-> hi]
NotRep(S, lo, hi) ==
    [k |-> "rep", set |-> IgnoreCase(S), neg |-> TRUE, lo |-> lo, hi |-> hi]
Opt(r) == [k |-> "opt", r |-> r]
Alt(rs) == [k |-> "alt", rs |-> rs]
Cat(rs) == [k |-> "cat", rs |-> rs]
WordBoundary == [k |-> "wb"]
Lit(s) == [k |-> "lit", s |-> s]

\* whether character c is in the class of node re
InClass(re, c) == (c \in re.set) # re.neg

\* the least index j of lo..hi with t[j] outside the class of re, or hi+1
FirstOut(re, t, lo, hi) ==
    IF \E j \in lo..hi : ~InClass(re, t[j])
    THEN CHOOSE j \in lo..hi :
             ~InClass(re, t[j]) /\ \A k \in lo..(j - 1) : InClass(re, t[k])
    ELSE IF lo > hi THEN lo ELSE hi + 1

\* the length of the run of class characters of t after position i, at most
\* re.hi
RunLength(re, t, i) ==
    FirstOut(re, t, i + 1,
             IF re.hi < 0 \/ i + re.hi > Len(t) THEN Len(t) ELSE i + re.hi) - (1 + i)

\* whether the literal s occurs in t after position i, ignoring case
LitAt(s, t, i) ==
    /\ i + Len(s) <= Len(t)
    /\ \A k \in 1..Len(s) : LowerChar(t[i + k]) = LowerChar(s[k])

IsWordAt(t, j) == j >= 1 /\ j <= Len(t) /\ t[j] \in WordChars

RECURSIVE Ends(_, _, _)
RECURSIVE EndsRange(_, _, _, _, _)

\* the ends of the matches of re in t that start after position i
Ends(re, t, i) ==
    CASE re.k = "cls" ->
            IF i < Len(t) /\ InClass(re, t[i + 1]) THEN <<i + 1>> ELSE <<>>
      [] re.k = "rep" ->
            CHOOSE es \in {IF n < re.lo THEN <<>>
                           ELSE [j \in 1..(n - re.lo + 1) |-> i + n - (j - 1)] :
                           n \in {RunLength(re, t, i)}} : TRUE
      [] re.k = "lit" -> IF LitAt(re.s, t, i) THEN <<i + Len(re.s)>> ELSE <<>>
      [] re.k = "opt" -> Ends(re.r, t, i) \o <<i>>
      [] re.k = "alt" ->
            CHOOSE ends \in
                {Flatten(ps) :
                 ps \in {<<>> \o [j \in 1..Len(re.rs) |-> Ends(re.rs[j], t, i)]}} : TRUE
      [] re.k = "cat" ->
            IF re.rs = <<>> THEN <<i>> ELSE EndsRange(re.rs, 1, Len(re.rs), t, i)
      [] re.k = "wb" ->
            IF IsWordAt(t, i) # IsWordAt(t, i + 1) THEN <<i>> ELSE <<>>

\* the ends of the matches of rs[a], ..., rs[b] one after the other in t that
\* start after position i: each end of the first half of the pieces, in
\* order, followed by each end of the second half from there
EndsRange(rs, a, b, t, i) ==
    IF a = b THEN Ends(rs[a], t, i)
    ELSE CHOOSE ends \in
             {CHOOSE r \in
                  {Flatten(ps) :
                   ps \in {<<>> \o [k \in 1..Len(es) |->
                                       EndsRange(rs, ((a + b) \div 2) + 1, b, t, es[k])]}} :
                  TRUE :
              es \in {EndsRange(rs, a, (a + b) \div 2, t, i)}} : TRUE

NoMatch == <<>>

\* re.match at position i: the span <<start, end>> of the match, or NoMatch
MatchAt(re, t, i) ==
    CHOOSE m \in {IF es = <<>> THEN NoMatch ELSE <<i, es[1]>> :
                  es \in {Ends(re, t, i)}} : TRUE

\* the match at the least position of lo..hi that has one
SearchIn(re, t, lo, hi) ==
    IF \E i \in lo..hi : Ends(re, t, i) # <<>>
    THEN CHOOSE m \in
             {MatchAt(re, t, first) :
              first \in {CHOOSE i \in lo..hi :
                             /\ Ends(re, t, i) # <<>>
                             /\ \A j \in lo..(i - 1) : Ends(re, t, j) = <<>>}} : TRUE
    ELSE NoMatch

\* re.findall for a pattern without capturing group: the matched substrings,
\* left to right, not overlapping
RECURSIVE FindAllFrom(_, _, _)
FindAllFrom(re, t, i) ==
    CHOOSE found \in
        {IF m = NoMatch THEN <<>>
         ELSE <<SubSeq(t, m[1] + 1, m[2])>>
                 \o FindAllFrom(re, t, IF m[2] = m[1] THEN m[2] + 1 ELSE m[2]) :
         m \in {SearchIn(re, t, i, Len(t))}} : TRUE

\* re.search for a pattern `prefix(group)`: the text of the closing group of
\* the leftmost match, or NoMatch
\* the first of the positions of es where grp matches, or -1
FirstGroupStart(grp, t, prefixEnds) ==
    CHOOSE g \in
        {IF \E k \in 1..Len(es) : Ends(grp, t, es[k]) # <<>>
         THEN es[CHOOSE k \in 1..Len(es) :
                     /\ Ends(grp, t, es[k]) # <<>>
                     /\ \A m \in 1..(k - 1) : Ends(grp, t, es[m]) = <<>>]
         ELSE -1 :
         es \in {prefixEnds}} : TRUE

\* the group of the match of `prefix(group)` at position i, or NoMatch
GroupAt(prefix, grp, t, i) ==
    CHOOSE m \in
        {IF g >= 0 THEN <<SubSeq(t, g + 1, Ends(grp, t, g)[1])>> ELSE NoMatch :
         g \in {FirstGroupStart(grp, t, Ends(prefix, t, i))}} : TRUE

\* the group of the match at the least position of lo..hi that has one
SearchGroupIn(prefix, grp, t, lo, hi) ==
    IF \E i \in lo..hi : GroupAt(prefix, grp, t, i) # NoMatch
    THEN CHOOSE m \in
             {GroupAt(prefix, grp, t, first) :
              first \in {CHOOSE i \in lo..hi :
                             /\ GroupAt(prefix, grp, t, i) # NoMatch
                             /\ \A j \in lo..(i - 1) :
                                    GroupAt(prefix, grp, t, j) = NoMatch}} : TRUE
    ELSE NoMatch

SearchGroupFrom(prefix, grp, t, i) == SearchGroupIn(prefix, grp, t, i, Len(t))

(***************************************************************************)
(* dateutil.parser.parse(d, dayfirst=True, fuzzy=True), on the strings the *)
(* date patterns can match: digits, letters, the separators / - . and      *)
(* whitespace.  A word may be one dateutil knows: a month or weekday name, *)
(* am/pm, an h/m/s label, a jump word, or a word float() reads.  Today's   *)
(* date enters through the default the parser fills missing fields from,   *)
(* and through the century of a two-digit year.                            *)
(***************************************************************************)
DigitSeq == <<"0", "1", "2", "3", "4", "5", "6", "7", "8", "9">>
DigitVal(c) == (CHOOSE i \in 1..10 : DigitSeq[i] = c) - 1

IsAlpha(c) == c \in LowerAscii \cup UpperAscii \cup AccentedLower \cup AccentedUpper
IsDigit(c) == c \in Digits
IsSpace(c) == c \in Whitespace

CountDots(tok) == Cardinality({i \in 1..Len(tok) : tok[i] = "."})
HasLetter(tok) == \E i \in 1..Len(tok) : IsAlpha(tok[i])
AllDigits(tok) == tok # <<>> /\ \A i \in 1..Len(tok) : IsDigit(tok[i])

\* _timelex.get_token's inner loop: the token that starts at s[i] in the
\* given state, as <<token, state, next position>>
RECURSIVE LexRun(_, _, _, _)
LexRun(s, i, state, token) ==
    IF i > Len(s) THEN <<token, state, i>>
    ELSE LET c == s[i]
             last == token[Len(token)]
             next ==
                CASE state = "a" /\ IsAlpha(c) -> "a"
                  [] state = "a" /\ c = "." -> "a."
                  [] state = "0" /\ IsDigit(c) -> "0"
                  [] state = "0" /\ c = "." -> "0."
                  [] state = "a." /\ (c = "." \/ IsAlpha(c)) -> "a."
                  [] state = "a." /\ IsDigit(c) /\ last = "." -> "0."
                  [] state = "0." /\ (c = "." \/ IsDigit(c)) -> "0."
                  [] state = "0." /\ IsAlpha(c) /\ last = "." -> "a."
                  [] OTHER -> "stop"
         IN  IF next = "stop" THEN <<token, state, i>>
             ELSE LexRun(s, i + 1, next, Append(token, c))

\* _split_decimal.split, without the empty pieces after the first
RECURSIVE SplitDots(_, _)
SplitDots(tok, cur) ==
    IF tok = <<>> THEN (IF cur = <<>> THEN <<>> ELSE <<cur>>)
    ELSE IF Head(tok) = "."
         THEN (IF cur = <<>> THEN <<>> ELSE <<cur>>) \o <<<<".">>>>
                  \o SplitDots(Tail(tok), <<>>)
         ELSE SplitDots(Tail(tok), Append(cur, Head(tok)))

\* _timelex.split
RECURSIVE Lex(_, _)
Lex(s, i) ==
    IF i > Len(s) THEN <<>>
    ELSE LET c == s[i]
         IN  IF IsSpace(c) THEN <<<<" ">>>> \o Lex(s, i + 1)
             ELSE IF ~(IsAlpha(c) \/ IsDigit(c)) THEN <<<<c>>>> \o Lex(s, i + 1)
             ELSE LET r == LexRun(s, i + 1, IF IsAlpha(c) THEN "a" ELSE "0", <<c>>)
                      tok == r[1]
                      split == /\ r[2] \in {"a.", "0."}
                               /\ \/ HasLetter(tok)
                                  \/ CountDots(tok) > 1
                                  \/ tok[Len(tok)] = "."
                  IN  (IF split THEN SplitDots(tok, <<>>) ELSE <<tok>>)
                          \o Lex(s, r[3])

\* parserinfo.MONTHS: the month a word names, or 0

MonthNames ==
    <<{<<"j", "a", "n">>,
       <<"j", "a", "n", "u", "a", "r", "y">>},
      {<<"f", "e", "b">>,
       <<"f", "e", "b", "r", "u", "a", "r", "y">>},
      {<<"m", "a", "r">>,
       <<"m", "a", "r", "c", "h">>},
      {<<"a", "p", "r">>,
       <<"a", "p", "r", "i", "l">>},
      {<<"m", "a", "y">>},
      {<<"j", "u", "n">>,
       <<"j", "u", "n", "e">>},
      {<<"j", "u", "l">>,
       <<"j", "u", "l", "y">>},
      {<<"a", "u", "g">>,
       <<"a", "u", "g", "u", "s", "t">>},
      {<<"s", "e", "p">>,
       <<"s", "e", "p", "t">>,
       <<"s", "e", "p", "t", "e", "m", "b", "e", "r">>},
      {<<"o", "c", "t">>,
       <<"o", "c", "t", "o", "b", "e", "r">>},
      {<<"n", "o", "v">>,
       <<"n", "o", "v", "e", "m", "b", "e", "r">>},
      {<<"d", "e", "c">>,
       <<"d", "e", "c", "e", "m", "b", "e", "r">>}>>

MonthOf(word) ==
    IF \E m \in 1..12 : Lower(word) \in MonthNames[m]
    THEN CHOOSE m \in 1..12 : Lower(word) \in MonthNames[m]
    ELSE 0

\* parserinfo.JUMP, WEEKDAYS, HMS, AMPM and PERTAIN, in lower case as
\* parserinfo._convert keeps them; a lookup lowers the token first
JumpWords ==
    {<<" ">>, <<".">>, <<",">>, <<";">>, <<"-">>,
     <<"/">>, <<"'">>, <<"a", "t">>, <<"o", "n">>, <<"a", "n", "d">>,
     <<"a", "d">>, <<"m">>, <<"t">>, <<"o", "f">>, <<"s", "t">>,
     <<"n", "d">>, <<"r", "d">>, <<"t", "h">>}

WeekdayNames ==
    <<{<<"m", "o", "n">>,
       <<"m", "o", "n", "d", "a", "y">>},
      {<<"t", "u", "e">>,
       <<"t", "u", "e", "s", "d", "a", "y">>},
      {<<"w", "e", "d">>,
       <<"w", "e", "d", "n", "e", "s", "d", "a", "y">>},
      {<<"t", "h", "u">>,
       <<"t", "h", "u", "r", "s", "d", "a", "y">>},
      {<<"f", "r", "i">>,
       <<"f", "r", "i", "d", "a", "y">>},
      {<<"s", "a", "t">>,
       <<"s", "a", "t", "u", "r", "d", "a", "y">>},
      {<<"s", "u", "n">>,
       <<"s", "u", "n", "d", "a", "y">>}>>

HmsNames ==
    <<{<<"h">>,
       <<"h", "o", "u", "r">>,
       <<"h", "o", "u", "r", "s">>},
      {<<"m">>,
       <<"m", "i", "n", "u", "t", "e">>,
       <<"m", "i", "n", "u", "t", "e", "s">>},
      {<<"s">>,
       <<"s", "e", "c", "o", "n", "d">>,
       <<"s", "e", "c", "o", "n", "d", "s">>}>>

AmpmNames ==
    <<{<<"a", "m">>,
       <<"a">>},
      {<<"p", "m">>,
       <<"p">>}>>

\* the value of a parser result's field that is None
Absent == 0 - 1

IsJumpToken(tok) == Lower(tok) \in JumpWords
IsSepToken(tok) == tok \in {<<"-">>, <<"/">>, <<".">>}
IsPertain(tok) == Lower(tok) = <<"o", "f">>

\* parserinfo.weekday, hms and ampm: the index of the entry that has the
\* word, or Absent
WeekdayOf(word) ==
    IF \E d \in 1..7 : Lower(word) \in WeekdayNames[d]
    THEN (CHOOSE d \in 1..7 : Lower(word) \in WeekdayNames[d]) - 1
    ELSE Absent

HmsOf(word) ==
    IF \E k \in 1..3 : Lower(word) \in HmsNames[k]
    THEN (CHOOSE k \in 1..3 : Lower(word) \in HmsNames[k]) - 1
    ELSE Absent

AmpmOf(word) ==
    IF \E k \in 1..2 : Lower(word) \in AmpmNames[k]
    THEN (CHOOSE k \in 1..2 : Lower(word) \in AmpmNames[k]) - 1
    ELSE Absent

\* float(token) succeeds: a number, or one of the words float() reads
IsFloatToken(tok) ==
    \/ IsDigit(tok[1])
    \/ Lower(tok) \in {<<"n", "a", "n">>, <<"i", "n", "f">>,
                       <<"i", "n", "f", "i", "n", "i", "t", "y">>}

\* int() of a string of digits
RECURSIVE ParseInt(_, _)
ParseInt(tok, acc) ==
    IF tok = <<>> THEN acc
    ELSE ParseInt(Tail(tok), 10 * acc + DigitVal(Head(tok)))

\* int(Decimal(token)): the digits before the decimal point
RECURSIVE IntPart(_, _)
IntPart(tok, acc) ==
    IF tok = <<>> \/ Head(tok) = "." THEN acc
    ELSE IntPart(Tail(tok), 10 * acc + DigitVal(Head(tok)))

\* token.find('.') + 1: the position of the first dot, or 0
DotPos(tok) ==
    IF \E k \in 1..Len(tok) : tok[k] = "."
    THEN CHOOSE k \in 1..Len(tok) :
             tok[k] = "." /\ \A j \in 1..(k - 1) : tok[j] # "."
    ELSE 0

\* the digits after the decimal point of a numeric token
FracPart(tok) ==
    IF DotPos(tok) = 0 THEN <<>> ELSE SubSeq(tok, DotPos(tok) + 1, Len(tok))
\* Decimal(token) % 1 is not zero
FracNonZero(tok) == \E k \in 1..Len(FracPart(tok)) : FracPart(tok)[k] # "0"

RECURSIVE Pow10(_)
Pow10(k) == IF k = 0 THEN 1 ELSE 10 * Pow10(k - 1)

\* int(60 * (Decimal(token) % 1))
SixtyFrac(tok) == (60 * ParseInt(FracPart(tok), 0)) \div Pow10(Len(FracPart(tok)))
\* Decimal(token) > n
DecGreater(tok, n) ==
    IntPart(tok, 0) > n \/ (IntPart(tok, 0) = n /\ FracNonZero(tok))

\* parser._parsems(value): the seconds of I[.F], or Absent when int() raises
ParseSeconds(v) ==
    LET ip == IF DotPos(v) = 0 THEN v ELSE SubSeq(v, 1, DotPos(v) - 1)
    IN  IF AllDigits(ip) /\ (FracPart(v) = <<>> \/ AllDigits(FracPart(v)))
        THEN ParseInt(ip, 0) ELSE Absent
\* parser._parsems(value): the microseconds, int(f.ljust(6, "0")[:6])
ParseMicro(v) ==
    LET f == FracPart(v) \o <<"0", "0", "0", "0", "0", "0">>
    IN  IF DotPos(v) = 0 THEN 0 ELSE ParseInt(SubSeq(f, 1, 6), 0)

\* parser._result with the _ymd list of the parse and the index i of the
\* token under the loop; ymd holds the values collected, each with its label
\* "Y", "M" or "-".  tzname and tzoffset are left out: they are set only once
\* the hour is, no token is read differently for them, and the date of the
\* result does not depend on them.
NewResult ==
    [ok |-> TRUE, i |-> 1, ymd |-> <<>>, weekday |-> Absent, hour |-> Absent,
     minute |-> Absent, second |-> Absent, microsecond |-> Absent,
     ampm |-> Absent]
\* an IndexError or ValueError inside parser._parse
YmdFail(p) == [p EXCEPT !.ok = FALSE]
HasLabel(ymd, l) == \E k \in 1..Len(ymd) : ymd[k].l = l

\* _ymd.append(val, label)
YmdAppend(p, v, l) ==
    IF l # "-" /\ HasLabel(p.ymd, l) THEN YmdFail(p)
    ELSE [p EXCEPT !.ymd = Append(@, [v |-> v, l |-> l])]

\* _ymd.append of a token string: int(val), a year when longer than 2
YmdAppendStr(p, tok) ==
    IF ~p.ok \/ ~AllDigits(tok) THEN YmdFail(p)
    ELSE YmdAppend(p, ParseInt(tok, 0), IF Len(tok) > 2 THEN "Y" ELSE "-")

\* _ymd.append of a Decimal: int(val), a year when above 100
YmdAppendDec(p, tok) ==
    YmdAppend(p, IntPart(tok, 0), IF DecGreater(tok, 100) THEN "Y" ELSE "-")

LabelIndex(ymd, l) ==
    IF HasLabel(ymd, l) THEN CHOOSE k \in 1..Len(ymd) : ymd[k].l = l ELSE 0
NumLabels(ymd) == Cardinality({k \in 1..Len(ymd) : ymd[k].l # "-"})

IsLeap(y) == y % 4 = 0 /\ (y % 100 # 0 \/ y % 400 = 0)
\* calendar.monthrange(y, m)[1]
DaysInMonth(y, m) ==
    IF m = 2 THEN (IF IsLeap(y) THEN 29 ELSE 28)
    ELSE IF m \in {4, 6, 9, 11} THEN 30 ELSE 31

\* _ymd.could_be_day(value), no value being labelled a day
CouldBeDay(ymd, tok) ==
    LET mi == LabelIndex(ymd, "M")
        yi == LabelIndex(ymd, "Y")
        last == IF mi = 0 THEN 31
                ELSE IF yi = 0 THEN DaysInMonth(2000, ymd[mi].v)
                ELSE DaysInMonth(ymd[yi].v, ymd[mi].v)
    IN  IntPart(tok, 0) >= 1 /\ ~DecGreater(tok, last)

\* parserinfo.convertyear: a year below 100 given without its century is put
\* within 50 years of the current year
ConvertYear(year, century_specified, today) ==
    IF year < 100 /\ ~century_specified
    THEN LET y1 == year + (today.y \div 100) * 100
         IN  IF y1 >= today.y + 50 THEN y1 - 100
             ELSE IF y1 < today.y - 50 THEN y1 + 100
             ELSE y1
    ELSE year

\* parser._adjust_ampm
AdjustAmpm(hour, ampm) ==
    IF hour < 12 /\ ampm = 1 THEN hour + 12
    ELSE IF hour = 12 /\ ampm = 0 THEN 0
    ELSE hour

\* parser._ampm_valid(hour, ampm, fuzzy=True)
AmpmValid(hour, ampm) == ampm = Absent /\ hour # Absent /\ hour >= 0 /\ hour <= 12

\* parser._find_hms_idx(idx, tokens, info, allow_jump=True): the index of the
\* h/m/s label that belongs to the number at idx, or 0
FindHmsIdx(l, idx) ==
    IF idx + 1 <= Len(l) /\ HmsOf(l[idx + 1]) # Absent THEN idx + 1
    ELSE IF idx + 2 <= Len(l) /\ l[idx + 1] = <<" ">> /\ HmsOf(l[idx + 2]) # Absent
    THEN idx + 2
    ELSE IF idx > 1 /\ HmsOf(l[idx - 1]) # Absent THEN idx - 1
    ELSE IF idx > 2 /\ idx = Len(l) /\ l[idx - 1] = <<" ">> /\ HmsOf(l[idx - 2]) # Absent
    THEN idx - 2
    ELSE 0

\* parser._assign_hms(res, value_repr, hms); _parse_hms gives a label found
\* before the number the next unit, and no unit follows the seconds
AssignHms(p, tok, hms) ==
    IF hms = 0
    THEN [p EXCEPT !.hour = IntPart(tok, 0),
                   !.minute = IF FracNonZero(tok) THEN SixtyFrac(tok) ELSE @]
    ELSE IF hms = 1
    THEN [p EXCEPT !.minute = IntPart(tok, 0),
                   !.second = IF FracNonZero(tok) THEN SixtyFrac(tok) ELSE Absent]
    ELSE IF hms = 2
    THEN [p EXCEPT !.second = ParseSeconds(tok), !.microsecond = ParseMicro(tok)]
    ELSE p

\* _parse_numeric_token, in the branch `tokens[idx + 1] in ('-', '/', '.')`
NumericWithSep(l, p) ==
    LET idx == p.i
        a1 == YmdAppendStr(p, l[idx])
    IN  IF ~a1.ok THEN a1
        ELSE IF ~(idx + 2 <= Len(l) /\ ~IsJumpToken(l[idx + 2]))
        THEN [a1 EXCEPT !.i = idx + 1]
        ELSE LET a2 == IF AllDigits(l[idx + 2]) THEN YmdAppendStr(a1, l[idx + 2])
                       ELSE IF MonthOf(l[idx + 2]) # 0
                            THEN YmdAppend(a1, MonthOf(l[idx + 2]), "M")
                            ELSE YmdFail(a1)
             IN  IF ~a2.ok THEN a2
                 ELSE IF idx + 3 <= Len(l) /\ l[idx + 3] = l[idx + 1]
                 THEN IF idx + 4 > Len(l) THEN YmdFail(a2)
                      ELSE LET a3 == IF MonthOf(l[idx + 4]) # 0
                                     THEN YmdAppend(a2, MonthOf(l[idx + 4]), "M")
                                     ELSE YmdAppendStr(a2, l[idx + 4])
                           IN  [a3 EXCEPT !.i = idx + 4]
                 ELSE [a2 EXCEPT !.i = idx + 2]

\* parser._parse_numeric_token: the result after the number at p.i, its i at
\* the last token read.  The patterns match no ':', so the branch of HH:MM
\* is never taken.
ParseNumericToken(l, p) ==
    LET idx == p.i
        tok == l[idx]
        len_li == Len(tok)
        hms_idx == FindHmsIdx(l, idx)
    IN  IF ~IsDigit(tok[1]) THEN YmdFail(p)       \* _to_decimal of nan or inf
        ELSE IF /\ Len(p.ymd) = 3 /\ len_li \in {2, 4} /\ p.hour = Absent
                /\ (idx + 1 > Len(l) \/ HmsOf(l[idx + 1]) = Absent)
        THEN \* 19990101T23[59]
             IF ~AllDigits(tok) THEN YmdFail(p)
             ELSE [p EXCEPT !.hour = ParseInt(SubSeq(tok, 1, 2), 0),
                            !.minute = IF len_li = 4
                                       THEN ParseInt(SubSeq(tok, 3, 4), 0) ELSE @]
        ELSE IF len_li = 6 \/ (len_li > 6 /\ DotPos(tok) = 7)
        THEN \* YYMMDD or HHMMSS[.ss]
             IF p.ymd = <<>> /\ DotPos(tok) = 0
             THEN YmdAppendStr(YmdAppendStr(YmdAppendStr(p,
                      SubSeq(tok, 1, 2)), SubSeq(tok, 3, 4)), SubSeq(tok, 5, 6))
             ELSE IF ~AllDigits(SubSeq(tok, 1, 4))
                      \/ ParseSeconds(SubSeq(tok, 5, len_li)) = Absent
             THEN YmdFail(p)
             ELSE [p EXCEPT !.hour = ParseInt(SubSeq(tok, 1, 2), 0),
                            !.minute = ParseInt(SubSeq(tok, 3, 4), 0),
                            !.second = ParseSeconds(SubSeq(tok, 5, len_li)),
                            !.microsecond = ParseMicro(SubSeq(tok, 5, len_li))]
        ELSE IF len_li \in {8, 12, 14}
        THEN \* YYYYMMDD[hhmm[ss]]
             IF ~AllDigits(tok) \/ HasLabel(p.ymd, "Y") THEN YmdFail(p)
             ELSE LET a == YmdAppendStr(YmdAppendStr(YmdAppend(p,
                               ParseInt(SubSeq(tok, 1, 4), 0), "Y"),
                               SubSeq(tok, 5, 6)), SubSeq(tok, 7, 8))
                  IN  [a EXCEPT !.hour = IF len_li > 8
                                         THEN ParseInt(SubSeq(tok, 9, 10), 0) ELSE @,
                                !.minute = IF len_li > 8
                                           THEN ParseInt(SubSeq(tok, 11, 12), 0) ELSE @,
                                !.second = IF len_li > 12
                                           THEN ParseInt(SubSeq(tok, 13, 14), 0) ELSE @]
        ELSE IF hms_idx # 0
        THEN \* HH[ ]h or MM[ ]m or SS[.ss][ ]s
             IF hms_idx > idx
             THEN [AssignHms(p, tok, HmsOf(l[hms_idx])) EXCEPT !.i = hms_idx]
             ELSE AssignHms(p, tok, HmsOf(l[hms_idx]) + 1)
        ELSE IF idx + 1 <= Len(l) /\ IsSepToken(l[idx + 1])
        THEN NumericWithSep(l, p)
        ELSE IF idx + 1 > Len(l) \/ IsJumpToken(l[idx + 1])
        THEN IF idx + 2 <= Len(l) /\ AmpmOf(l[idx + 2]) # Absent
             THEN \* 12 am
                  [p EXCEPT !.hour = AdjustAmpm(IntPart(tok, 0), AmpmOf(l[idx + 2])),
                            !.i = idx + 2]
             ELSE \* year, month or day
                  [YmdAppendDec(p, tok) EXCEPT !.i = idx + 1]
        ELSE IF AmpmOf(l[idx + 1]) # Absent /\ IntPart(tok, 0) < 24
        THEN \* 12am
             [p EXCEPT !.hour = AdjustAmpm(IntPart(tok, 0), AmpmOf(l[idx + 1])),
                       !.i = idx + 1]
        ELSE IF CouldBeDay(p.ymd, tok) THEN YmdAppendDec(p, tok)
        ELSE p

\* parser._parse, a month name at p.i: Jan-01[-99] and "Jan of 01"
ParseMonthToken(l, p, today) ==
    LET i == p.i
        a == YmdAppend(p, MonthOf(l[i]), "M")
    IN  IF ~a.ok \/ i + 1 > Len(l) THEN a
        ELSE IF l[i + 1] \in {<<"-">>, <<"/">>}
        THEN IF i + 2 > Len(l) THEN YmdFail(a)
             ELSE LET a2 == YmdAppendStr(a, l[i + 2])
                  IN  IF ~a2.ok THEN a2
                      ELSE IF i + 3 <= Len(l) /\ l[i + 3] = l[i + 1]
                      THEN IF i + 4 > Len(l) THEN YmdFail(a2)
                           ELSE [YmdAppendStr(a2, l[i + 4]) EXCEPT !.i = i + 4]
                      ELSE [a2 EXCEPT !.i = i + 2]
        ELSE IF /\ i + 4 <= Len(l) /\ l[i + 1] = <<" ">> /\ l[i + 3] = <<" ">>
                /\ IsPertain(l[i + 2])
        THEN IF AllDigits(l[i + 4])
             THEN [YmdAppend(a, ConvertYear(ParseInt(l[i + 4], 0), FALSE, today), "Y")
                      EXCEPT !.i = i + 4]
             ELSE [a EXCEPT !.i = i + 4]
        ELSE a

\* parser._parse, a numbered timezone at p.i once the hour is known: the
\* offset is read with int() from the next token, which is skipped; no ':'
\* and no parenthesis follows in a string the patterns match
ParseTzOffset(l, p) ==
    IF p.i + 1 <= Len(l) /\ AllDigits(l[p.i + 1]) /\ Len(l[p.i + 1]) \in {1, 2, 4}
    THEN [p EXCEPT !.i = p.i + 1]
    ELSE YmdFail(p)

\* parser._parse: one turn of the loop, on the token at p.i
ParseToken(l, p, today) ==
    LET tok == l[p.i]
    IN  IF IsFloatToken(tok) THEN ParseNumericToken(l, p)
        ELSE IF WeekdayOf(tok) # Absent THEN [p EXCEPT !.weekday = WeekdayOf(tok)]
        ELSE IF MonthOf(tok) # 0 THEN ParseMonthToken(l, p, today)
        ELSE IF AmpmOf(tok) # Absent
        THEN IF AmpmValid(p.hour, p.ampm)
             THEN [p EXCEPT !.hour = AdjustAmpm(p.hour, AmpmOf(tok)),
                            !.ampm = AmpmOf(tok)]
             ELSE p
        ELSE IF p.hour # Absent /\ tok \in {<<"+">>, <<"-">>}
        THEN ParseTzOffset(l, p)
        ELSE \* a timezone name, a jump token, or a token fuzzy parsing skips
             p

\* parser._parse: the loop over the tokens from index p.i
RECURSIVE ParseTokens(_, _, _)
ParseTokens(l, p, today) ==
    IF ~p.ok \/ p.i > Len(l) THEN p
    ELSE Bind(ParseToken(l, p, today), LAMBDA q :
             ParseTokens(l, [q EXCEPT !.i = q.i + 1], today))

\* the result of resolve_ymd
Ymd(y, m, d) == [y |-> y, m |-> m, d |-> d]

\* _ymd.resolve_ymd(yearfirst=False, dayfirst=True), of at most three values
ResolveYmd(ymd) ==
    LET n == Len(ymd)
        nl == NumLabels(ymd)
        yi == LabelIndex(ymd, "Y")
        mi == LabelIndex(ymd, "M")
        v == [k \in 1..n |-> ymd[k].v]
    IN  IF n = 0 THEN Ymd(Absent, Absent, Absent)
        ELSE IF (n = nl /\ n > 0) \/ (n = 3 /\ nl = 2)
        THEN \* _resolve_from_stridxs
             Ymd(IF yi # 0 THEN v[yi] ELSE Absent,
                 IF mi # 0 THEN v[mi] ELSE Absent,
                 IF n = 3 THEN v[CHOOSE k \in 1..3 : k # yi /\ k # mi] ELSE Absent)
        ELSE IF n = 1 \/ (mi # 0 /\ n = 2)
        THEN LET other == IF mi # 0 THEN v[3 - mi] ELSE v[1]
                 month == IF mi # 0 THEN v[mi] ELSE Absent
             IN  IF other > 31 THEN Ymd(other, month, Absent)
                 ELSE Ymd(Absent, month, other)
        ELSE IF n = 2
        THEN IF v[1] > 31 THEN Ymd(v[1], v[2], Absent)
             ELSE IF v[2] > 31 THEN Ymd(v[2], v[1], Absent)
             ELSE IF v[2] <= 12 THEN Ymd(Absent, v[2], v[1])
             ELSE Ymd(Absent, v[1], v[2])
        ELSE \* n = 3
             IF mi = 1
             THEN IF v[2] > 31 THEN Ymd(v[2], v[1], v[3]) ELSE Ymd(v[3], v[1], v[2])
             ELSE IF mi = 2
             THEN IF v[1] > 31 THEN Ymd(v[1], v[2], v[3]) ELSE Ymd(v[3], v[2], v[1])
             ELSE IF mi = 3
             THEN IF v[2] > 31 THEN Ymd(v[2], v[3], v[1]) ELSE Ymd(v[1], v[3], v[2])
             ELSE IF v[1] > 31 \/ yi = 1
             THEN IF v[3] <= 12 THEN Ymd(v[1], v[3], v[2]) ELSE Ymd(v[1], v[2], v[3])
             ELSE IF v[1] > 12 \/ v[2] <= 12 THEN Ymd(v[3], v[2], v[1])
             ELSE Ymd(v[3], v[1], v[2])

NoDate == [ok |-> FALSE, y |-> 0, m |-> 0, d |-> 0]
Date(y, m, d) == [ok |-> TRUE, y |-> y, m |-> m, d |-> d]
ValidDate(y, m, d) ==
    /\ y >= 1 /\ y <= 9999 /\ m >= 1 /\ m <= 12
    /\ d >= 1 /\ d <= DaysInMonth(y, m)

\* datetime.replace accepts the time of day found: a field that is None
\* keeps the midnight of the default
ValidTime(p) ==
    /\ p.hour = Absent \/ (p.hour >= 0 /\ p.hour <= 23)
    /\ p.minute = Absent \/ (p.minute >= 0 /\ p.minute <= 59)
    /\ p.second = Absent \/ (p.second >= 0 /\ p.second <= 59)

\* date.weekday(): Monday is 0
WeekdayOfDate(y, m, d) ==
    LET t == <<0, 3, 2, 5, 0, 3, 5, 1, 4, 6, 2, 4>>
        yy == IF m < 3 THEN y - 1 ELSE y
    IN  (yy + (yy \div 4) - (yy \div 100) + (yy \div 400) + t[m] + d + 6) % 7

\* the date k days after a date, k below 7; beyond year 9999 the addition
\* raises OverflowError
AddDays(dt, k) ==
    IF dt.d + k <= DaysInMonth(dt.y, dt.m) THEN Date(dt.y, dt.m, dt.d + k)
    ELSE IF dt.m < 12 THEN Date(dt.y, dt.m + 1, dt.d + k - DaysInMonth(dt.y, dt.m))
    ELSE IF dt.y < 9999 THEN Date(dt.y + 1, 1, dt.d + k - 31)
    ELSE NoDate

\* parser._build_naive: the fields not found come from today's date; a
\* default day beyond the month's end is brought back to it; a weekday found
\* without a day moves the date to the next such weekday
BuildNaive(r, p, today) ==
    LET cy == IF r.y = Absent THEN today.y ELSE r.y
        cm == IF r.m = Absent THEN today.m ELSE r.m
        cd == IF r.d = Absent THEN today.d ELSE r.d
    IN  IF ~(cy >= 1 /\ cy <= 9999 /\ cm >= 1 /\ cm <= 12) THEN NoDate
        ELSE LET day == IF r.d = Absent /\ cd > DaysInMonth(cy, cm)
                        THEN DaysInMonth(cy, cm) ELSE cd
             IN  IF ~(ValidDate(cy, cm, day) /\ ValidTime(p)) THEN NoDate
                 ELSE IF p.weekday # Absent /\ r.d = Absent
                 THEN AddDays(Date(cy, cm, day),
                              (7 - WeekdayOfDate(cy, cm, day) + p.weekday) % 7)
                 ELSE Date(cy, cm, day)

\* len(res) == 0: the parse found no field at all
IsEmptyResult(r, p) ==
    /\ r.y = Absent /\ r.m = Absent /\ r.d = Absent
    /\ p.weekday = Absent /\ p.hour = Absent /\ p.minute = Absent
    /\ p.second = Absent /\ p.microsecond = Absent /\ p.ampm = Absent

\* dateparser.parse(d, dayfirst=True, fuzzy=True).date(), or NoDate when it
\* raises
DateParse(s, today) ==
    Bind(Lex(s, 1), LAMBDA tokens :
    Bind(ParseTokens(tokens, NewResult, today), LAMBDA p :
        IF ~p.ok \/ Len(p.ymd) > 3 THEN NoDate
        ELSE Bind(ResolveYmd(p.ymd), LAMBDA r :
                 IF IsEmptyResult(r, p) THEN NoDate
                 ELSE LET y == IF r.y = Absent THEN Absent
                               ELSE ConvertYear(r.y, HasLabel(p.ymd, "Y"), today)
                      IN  BuildNaive(Ymd(y, r.m, r.d), p, today))))

\* date.isoformat(): YYYY-MM-DD
Pad2(n) == <<DigitSeq[((n \div 10) % 10) + 1], DigitSeq[(n % 10) + 1]>>
Pad4(n) == Pad2(n \div 100) \o Pad2(n % 100)
IsoFormat(dt) == Pad4(dt.y) \o <<"-">> \o Pad2(dt.m) \o <<"-">> \o Pad2(dt.d)

\* date.fromisoformat() of a string isoformat() made
FromIsoFormat(s) ==
    Date(ParseInt(SubSeq(s, 1, 4), 0), ParseInt(SubSeq(s, 6, 7), 0),
         ParseInt(SubSeq(s, 9, 10), 0))

\* date >= date
DateGe(a, b) ==
    \/ a.y > b.y
    \/ a.y = b.y /\ a.m > b.m
    \/ a.y = b.y /\ a.m = b.m /\ a.d >= b.d

\* the code points of a string, which Python's string comparison goes by
\* (UTF-8 keeps their order)
RECURSIVE SeqLess(_, _)
SeqLess(a, b) ==
    IF b = <<>> THEN FALSE
    ELSE IF a = <<>> THEN TRUE
    ELSE IF Head(a) # Head(b) THEN Head(a) < Head(b)
    ELSE SeqLess(Tail(a), Tail(b))
StrLess(a, b) == SeqLess(Utf8(a), Utf8(b))

\* list.sort() of strings
RECURSIVE Insert(_, _)
Insert(sorted, x) ==
    IF sorted = <<>> THEN <<x>>
    ELSE IF StrLess(x, Head(sorted)) THEN <<x>> \o sorted
    ELSE <<Head(sorted)>> \o Insert(Tail(sorted), x)
RECURSIVE SortStrings(_)
SortStrings(l) ==
    IF l = <<>> THEN <<>> ELSE Insert(SortStrings(SubSeq(l, 1, Len(l) - 1)), l[Len(l)])

(***************************************************************************)
(* parse_dates_from_text                                                   *)
(***************************************************************************)
DateSep == {"/", "-", "."} \cup Whitespace
\* [A-Za-zéûôàâîïùç]
MonthLetters == LowerAscii \cup UpperAscii \cup {"U00E9", "U00FB", "U00F4", "U00EE"}
Unbounded == 0 - 1

\* \d{1,2}[\/\-\.\s]\d{1,2}[\/\-\.\s]\d{2,4}
ReDMY == Cat(<<Rep(Digits, 1, 2), Cls(DateSep), Rep(Digits, 1, 2), Cls(DateSep),
               Rep(Digits, 2, 4)>>)
\* \d{4}[\/\-]\d{1,2}[\/\-]\d{1,2}
ReYMD == Cat(<<Rep(Digits, 4, 4), Cls({"/", "-"}), Rep(Digits, 1, 2),
               Cls({"/", "-"}), Rep(Digits, 1, 2)>>)
\* \d{1,2}\s+[A-Za-z...]+\.?\s+\d{4}
ReDMonY == Cat(<<Rep(Digits, 1, 2), Rep(Whitespace, 1, Unbounded),
                 Rep(MonthLetters, 1, Unbounded), Opt(Cls({"."})),
                 Rep(Whitespace, 1, Unbounded), Rep(Digits, 4, 4)>>)
\* \d{4}-\d{2}-\d{2}
ReIso == Cat(<<Rep(Digits, 4, 4), Cls({"-"}), Rep(Digits, 2, 2), Cls({"-"}),
               Rep(Digits, 2, 2)>>)

\* the pattern of line 150
ReGenericDate == Cat(<<WordBoundary, Alt(<<ReDMY, ReYMD, ReDMonY>>), WordBoundary>>)

S_date_limite == <<"d", "a", "t", "e", " ", "l", "i", "m", "i", "t", "e">>
S_cloture == <<"c", "l", "U00F4", "t", "u", "r", "e">>
S_date_de_depot ==
    <<"d", "a", "t", "e", " ", "d", "e", " ", "d", "U00E9", "p", "U00F4", "t">>
S_delais == <<"d", "U00E9", "l", "a", "i", "s">>

\* the pattern of line 166: (label)[^\n\r]{0,120} then the date group
ReDeadlinePrefix ==
    Cat(<<Alt(<<Lit(S_date_limite), Lit(S_cloture), Lit(S_date_de_depot),
               Lit(S_delais)>>),
          NotRep({"\n", "\r"}, 0, 120)>>)
ReDeadlineDate == Alt(<<ReDMY, ReDMonY, ReIso>>)

\* lines 154-159: the matches that parse, as ISO strings, in match order
ParsedDates(patt, today) ==
    Concat([k \in 1..Len(patt) |->
               Bind(DateParse(patt[k], today), LAMBDA dt :
                   IF dt.ok THEN <<IsoFormat(dt)>> ELSE <<>>)])

\* line 163: lim = parsed[-1] if len(parsed) > 1 else None
LimOf(sorted) == IF Len(sorted) > 1 THEN sorted[Len(sorted)] ELSE None

\* lines 160-164
FromParsed(parsed) ==
    Bind(SortStrings(parsed), LAMBDA sorted : <<sorted[1], LimOf(sorted)>>)

\* lines 165-175
LabeledDeadline(text, today) ==
    CHOOSE dates \in
        {IF m = NoMatch THEN <<None, None>>
         ELSE Bind(DateParse(m[1], today), LAMBDA dt :
                  IF dt.ok THEN <<None, IsoFormat(dt)>> ELSE <<None, None>>) :
         m \in {SearchGroupFrom(ReDeadlinePrefix, ReDeadlineDate, text, 0)}} : TRUE

\* whether the labeled fallback is entered (line 160)
TakesFallback(parsed) == parsed = <<>>

parse_dates_from_text(text, today) ==
    CHOOSE dates \in
        {IF ~TakesFallback(ParsedDates(patt, today))
         THEN FromParsed(ParsedDates(patt, today))
         ELSE LabeledDeadline(text, today) :
         patt \in {FindAllFrom(ReGenericDate, text, 0)}} : TRUE

\* ---- the texts handed to parse_dates_from_text ----
MaxPieces == 2

Fr_label == S_date_limite \o <<":", " ">>
Fr_20_04_2024 == <<"2", "0", "/", "0", "4", "/", "2", "0", "2", "4">>
Fr_15_mars == <<"1", "5", " ", "m", "a", "r", "s", " ", "2", "0", "2", "4">>
Fr_5_mars == <<"5", " ", "m", "a", "r", "s", " ", "2", "0", "2", "4", " ">>
Fr_10_01_2024 == <<"1", "0", "/", "0", "1", "/", "2", "0", "2", "4", " ">>
Fr_2024_03_05 == <<"2", "0", "2", "4", "-", "0", "3", "-", "0", "5", " ">>
Fr_1_sept == <<"1", " ", "s", "e", "p", "t", ".", " ", "2", "0", "2", "3", "\n">>
Fr_32_13 == <<"3", "2", "/", "1", "3", "/", "2", "0", "2", "4", " ">>
Fr_two_dates ==
    <<"0", "5", "/", "0", "3", "/", "2", "0", "2", "4", " ", "e", "t", " ",
      "1", "0", "-", "0", "1", "-", "2", "0", "2", "4", " ">>
Fr_12_am == <<"1", "2", " ", "a", "m", " ", "2", "0", "2", "4", " ">>
Fr_10_h == <<"1", "0", " ", "h", " ", "2", "0", "2", "4", " ">>
Fr_word == <<"l", "e", " ">>
Fr_x == <<"x">>

DateFragments ==
    {Fr_label, Fr_20_04_2024, Fr_15_mars, Fr_5_mars, Fr_10_01_2024,
     Fr_2024_03_05, Fr_1_sept, Fr_32_13, Fr_two_dates, Fr_12_am, Fr_10_h,
     Fr_word, Fr_x}

RECURSIVE TextsOf(_)
TextsOf(n) ==
    IF n = 0 THEN {<<>>}
    ELSE LET shorter == TextsOf(n - 1)
         IN  shorter \cup {t \o f : t \in shorter, f \in DateFragments}

DateTexts == TextsOf(MaxPieces)

Day(y, m, d) == [y |-> y, m |-> m, d |-> d]
Todays == {Day(2024, 4, 20), Day(2026, 2, 28)}

DatesIdle ==
    /\ dtext = <<>> /\ dtoday = Day(1, 1, 1) /\ dpc = "idle" /\ dpatt = <<>>
    /\ dk = 0 /\ dparsed = <<>> /\ dfallback = FALSE /\ dret = <<None, None>>

InitDates ==
    /\ dtext \in DateTexts
    /\ dtoday \in Todays
    /\ dpc = "findall"
    /\ dpatt = <<>>
    /\ dk = 0
    /\ dparsed = <<>>
    /\ dfallback = FALSE
    /\ dret = <<None, None>>

\* lines 149-153: patt = re.findall(...); parsed = []
DatesFindAll ==
    /\ dpc = "findall"
    /\ dpatt' = FindAllFrom(ReGenericDate, dtext, 0)
    /\ dpc' = "loop"
    /\ UNCHANGED <<dtext, dtoday, dk, dparsed, dfallback, dret>>
    /\ UNCHANGED notDatesVars

\* lines 154-157: the match parses; its ISO form is appended
DatesParseOne ==
    /\ dpc = "loop"
    /\ dk < Len(dpatt)
    /\ DateParse(dpatt[dk + 1], dtoday).ok
    /\ dparsed' = Append(dparsed, IsoFormat(DateParse(dpatt[dk + 1], dtoday)))
    /\ dk' = dk + 1
    /\ UNCHANGED <<dtext, dtoday, dpc, dpatt, dfallback, dret>>
    /\ UNCHANGED notDatesVars

\* lines 158-159: the parse raises; the match is skipped
DatesSkipOne ==
    /\ dpc = "loop"
    /\ dk < Len(dpatt)
    /\ ~DateParse(dpatt[dk + 1], dtoday).ok
    /\ dk' = dk + 1
    /\ UNCHANGED <<dtext, dtoday, dpc, dpatt, dparsed, dfallback, dret>>
    /\ UNCHANGED notDatesVars

\* lines 160-164: some match parsed; parsed.sort() sorts the list in place,
\* pub and lim are read from the sorted list
DatesReturnParsed ==
    /\ dpc = "loop"
    /\ dk = Len(dpatt)
    /\ ~TakesFallback(dparsed)
    /\ dparsed' = SortStrings(dparsed)
    /\ dret' = <<dparsed'[1], LimOf(dparsed')>>
    /\ dpc' = "done"
    /\ UNCHANGED <<dtext, dtoday, dpatt, dk, dfallback>>
    /\ UNCHANGED notDatesVars

\* lines 165-175: the labeled-deadline search
DatesFallback ==
    /\ dpc = "loop"
    /\ dk = Len(dpatt)
    /\ TakesFallback(dparsed)
    /\ dfallback' = TRUE
    /\ dret' = LabeledDeadline(dtext, dtoday)
    /\ dpc' = "done"
    /\ UNCHANGED <<dtext, dtoday, dpatt, dk, dparsed>>
    /\ UNCHANGED notDatesVars

NextDates ==
    DatesFindAll \/ DatesParseOne \/ DatesSkipOne \/ DatesReturnParsed \/ DatesFallback

(***************************************************************************)
(* URLs: urllib.parse.urljoin and urlparse, on hrefs without dot segments  *)
(* ("." or ".."), without empty path segments, without an empty query,     *)
(* fragment or parameter part, and without tabs or line breaks inside.     *)
(***************************************************************************)
StartsWith(s, p) == Len(s) >= Len(p) /\ SubSeq(s, 1, Len(p)) = p
EndsWith(s, p) == Len(s) >= Len(p) /\ SubSeq(s, Len(s) - Len(p) + 1, Len(s)) = p
\* `p in s` for strings
Contains(s, p) ==
    Bind(s, LAMBDA v : Bind(p, LAMBDA q :
        \E i \in 0..(Len(v) - Len(q)) : SubSeq(v, i + 1, i + Len(q)) = q))
DropFirst(s, n) == SubSeq(s, n + 1, Len(s))

\* the index of the first character of s from i on that is in set cs, or
\* Len(s)+1
FindFirst(s, cs, i) == FirstWhere(s, i, Len(s), cs, TRUE)

\* the index of the last "/" of s[1..i], or 0
LastSlash(s, i) == LastWhere(s, 1, i, {"/"}, TRUE)

SchemeChars == LowerAscii \cup UpperAscii \cup Digits \cup {"+", "-", "."}

\* urlsplit's scheme: the length of the prefix before the first ":" when it
\* is a scheme, or 0
SchemeLen(url) ==
    LET i == FindFirst(url, {":"}, 1)
    IN  IF /\ i > 1 /\ i <= Len(url)
           /\ url[1] \in LowerAscii \cup UpperAscii
           /\ \A k \in 1..(i - 1) : url[k] \in SchemeChars
        THEN i - 1 ELSE 0

S_http == <<"h", "t", "t", "p">>
S_https == <<"h", "t", "t", "p", "s">>
S_http_prefix == <<"h", "t", "t", "p", ":", "/", "/">>
S_https_prefix == <<"h", "t", "t", "p", "s", ":", "/", "/">>
S_mailto == <<"m", "a", "i", "l", "t", "o", ":">>
S_tel == <<"t", "e", "l", ":">>
S_slashes == <<"/", "/">>

\* urlsplit after the scheme: rest is the URL without its scheme and colon
PartsAfterScheme(scheme, rest) ==
    LET hasNet == StartsWith(rest, S_slashes)
    IN  Bind(IF hasNet THEN DropFirst(rest, 2) ELSE rest, LAMBDA afterNet :
        Bind(IF hasNet THEN FindFirst(afterNet, {"/", "?", "#"}, 1) ELSE 1,
             LAMBDA netEnd :
        Bind(DropFirst(afterNet, netEnd - 1), LAMBDA tail :
        Bind(FindFirst(tail, {"?", "#"}, 1), LAMBDA pathEnd :
            [scheme |-> scheme, hasNet |-> hasNet,
             netloc |-> SubSeq(afterNet, 1, netEnd - 1),
             path |-> SubSeq(tail, 1, pathEnd - 1),
             after |-> DropFirst(tail, pathEnd - 1)]))))

\* the parts of an http(s) URL: scheme, netloc, path, and what follows the
\* path ("?query" and "#fragment")
UrlParts(url) ==
    Bind(SchemeLen(url), LAMBDA n :
        PartsAfterScheme(Lower(SubSeq(url, 1, n)),
                         IF n > 0 THEN DropFirst(url, n + 1) ELSE url))

\* the query part of what follows the path
QueryOf(after) == SubSeq(after, 1, FindFirst(after, {"#"}, 1) - 1)

\* urlparse(url).path: the path without the parameters of its last segment
UrlPath(url) ==
    Bind(UrlParts(url).path, LAMBDA p :
        SubSeq(p, 1, FindFirst(p, {";"}, LastSlash(p, Len(p)) + 1) - 1))

\* whether urljoin(base, url) raises ValueError("Invalid IPv6 URL"): a bracket
\* in the netloc of url; a netloc of the model never holds a valid bracketed
\* IPv6 literal
UrlJoinRaises(url) ==
    Bind(UrlParts(url), LAMBDA u :
        u.hasNet /\ \E k \in 1..Len(u.netloc) : u.netloc[k] \in {"[", "]"})

\* urljoin(base, url), base an absolute http(s) URL, when it does not raise
JoinParts(base, url, b, u) ==
    LET origin == b.scheme \o <<":">> \o S_slashes \o b.netloc
    IN  IF url = <<>> THEN base
        ELSE IF u.scheme # <<>> /\ u.scheme # b.scheme THEN url
        ELSE IF u.hasNet /\ u.netloc # <<>>
        THEN b.scheme \o <<":">> \o S_slashes \o u.netloc \o u.path \o u.after
        ELSE IF u.path = <<>>
        THEN origin \o b.path
                 \o (IF QueryOf(u.after) # <<>> THEN u.after
                     ELSE QueryOf(b.after) \o u.after)
        ELSE IF u.path[1] = "/" THEN origin \o u.path \o u.after
        ELSE origin \o SubSeq(b.path, 1, LastSlash(b.path, Len(b.path)))
                    \o (IF b.path = <<>> THEN <<"/">> ELSE <<>>)
                    \o u.path \o u.after

UrlJoin(base, url) ==
    Bind(UrlParts(base), LAMBDA b :
        Bind(UrlParts(url), LAMBDA u : JoinParts(base, url, b, u)))

(***************************************************************************)
(* find_candidate_links.  A listing page is the sequence of its anchors    *)
(* that carry an href attribute, each given by the raw attribute value and *)
(* by its text as get_text(" ", strip=True) returns it.                    *)
(***************************************************************************)
MAX_DETAIL_PER_SITE == 200

LINK_KEYWORDS ==
    <<<<"a", "p", "p", "e", "l">>,
      <<"o", "f", "f", "r", "e">>,
      <<"m", "a", "r", "c", "h">>,
      <<"c", "o", "n", "s", "u", "l", "t">>,
      <<"a", "v", "i", "s">>,
      <<"s", "o", "u", "m", "i", "s", "s", "i", "o", "n">>,
      <<"a", "o", "p">>,
      <<"a", "o", "p", "s">>,
      <<"n", "o", "t", "i", "c", "e">>,
      <<"d", "e", "t", "a", "i", "l">>,
      <<"f", "i", "c", "h", "e">>,
      <<"c", "o", "n", "s", "u", "l", "t", "a", "t", "i", "o", "n">>>>

\* the keywords looked for in the path (line 138)
PATH_KEYWORDS ==
    <<<<"d", "e", "t", "a", "i", "l">>,
      <<"a", "v", "i", "s">>,
      <<"c", "o", "n", "s", "u", "l", "t">>,
      <<"o", "f", "f", "r", "e">>,
      <<"n", "o", "t", "i", "c", "e">>,
      <<"f", "i", "c", "h", "e">>>>

S_dot_pdf == <<".", "p", "d", "f">>

AnyIn(keywords, l) == \E k \in 1..Len(keywords) : Contains(l, keywords[k])

likely_offer_link(href, text) ==
    Bind(Lower(OrEmpty(href) \o <<" ">> \o OrEmpty(text)),
         LAMBDA l : AnyIn(LINK_KEYWORDS, l))

IsHttpUrl(u) == StartsWith(u, S_http_prefix) \/ StartsWith(u, S_https_prefix)
IsMailOrTel(u) == StartsWith(u, S_mailto) \/ StartsWith(u, S_tel)

\* the condition of the first branch of the loop body
KeepMain(abs_url, text) ==
    \/ likely_offer_link(abs_url, text)
    \/ Bind(Lower(UrlPath(abs_url)), LAMBDA path : AnyIn(PATH_KEYWORDS, path))

\* an elif branch that accepts every .pdf URL
KeepPdfAnyText(abs_url, text) == EndsWith(Lower(abs_url), S_dot_pdf)

\* the condition of the elif branch of the loop body
KeepPdf(abs_url, text) ==
    EndsWith(Lower(abs_url), S_dot_pdf) /\ likely_offer_link(abs_url, text)

\* seen.add(abs_url); candidates.append(abs_url), unless already seen; via
\* records the branch that appended each candidate
AddCandidate(st, abs_url, branch) ==
    IF abs_url \in st.seen THEN st
    ELSE [seen |-> st.seen \cup {abs_url},
          cands |-> Append(st.cands, abs_url),
          via |-> Append(st.via, branch)]

\* one iteration of the loop over the anchors
VisitUrl(st, abs_url, text) ==
    IF ~IsHttpUrl(abs_url) THEN st
    ELSE IF IsMailOrTel(abs_url) THEN st
    ELSE IF KeepMain(abs_url, text) THEN AddCandidate(st, abs_url, "main")
    ELSE IF KeepPdf(abs_url, text) THEN AddCandidate(st, abs_url, "pdf")
    ELSE st

VisitAnchor(st, base, a) ==
    Bind(UrlJoin(base, Strip(a.href)), LAMBDA abs_url : VisitUrl(st, abs_url, a.text))

\* candidates[:MAX_DETAIL_PER_SITE]
Truncate(cands) ==
    SubSeq(cands, 1, IF Len(cands) < MAX_DETAIL_PER_SITE THEN Len(cands)
                     ELSE MAX_DETAIL_PER_SITE)

EmptyLinkState == [seen |-> {}, cands |-> <<>>, via |-> <<>>]

\* the loop over anchors[i..], anchors a sequence of [href, text]
RECURSIVE VisitFrom(_, _, _, _)
VisitFrom(st, base, anchors, i) ==
    IF i > Len(anchors) THEN st
    ELSE CHOOSE last \in {VisitFrom(next, base, anchors, i + 1) :
                          next \in {VisitAnchor(st, base, anchors[i])}} : TRUE

\* whether the loop is left by the ValueError of a urljoin
DiscoveryRaises(anchors) ==
    \E i \in 1..Len(anchors) : UrlJoinRaises(Strip(anchors[i].href))

\* find_candidate_links when the listing was fetched and no urljoin raises
CandidateLinks(base, anchors) ==
    Truncate(VisitFrom(EmptyLinkState, base, anchors, 1).cands)

(***************************************************************************)
(* The listing pages of the model.  The anchors of a page are generated    *)
(* from templates: anchor i uses template ((i-1) mod the number of         *)
(* templates)+1, and a numbered template receives the number               *)
(* ((i-1) mod page.mod)+1 between its two href parts.                      *)
(***************************************************************************)
MaxAnchors == 205

RECURSIVE DecStr(_)
DecStr(n) ==
    IF n < 10 THEN <<DigitSeq[n + 1]>>
    ELSE Append(DecStr(n \div 10), DigitSeq[(n % 10) + 1])

Tpl(pre, num, post, text) == [pre |-> pre, num |-> num, post |-> post, text |-> text]

T_avis_123 == Tpl(<<"/", "a", "v", "i", "s", "/", "1", "2", "3">>, FALSE, <<>>, <<"A", "v", "i", "s", " ", "d", "e", " ", "m", "a", "r", "c", "h",
      "U00E9">>)
T_contact == Tpl(<<"/", "c", "o", "n", "t", "a", "c", "t">>, FALSE, <<>>, <<"C", "o", "n", "t", "a", "c", "t">>)
T_avis_n == Tpl(<<"/", "a", "v", "i", "s", "/">>, TRUE, <<>>, <<"A", "v", "i", "s">>)
T_doc_text == Tpl(<<"/", "d", "o", "c", "/">>, TRUE, <<>>, <<"A", "P", "P", "E", "L", " ", "D", "U2019", "O", "F", "F", "R",
      "E", "S">>)
T_plain_pdf == Tpl(<<"/", "d", "o", "c", "/">>, TRUE, <<".", "p", "d", "f">>, <<"R", "U00E8", "g", "l", "e", "m", "e", "n", "t">>)
T_offer_pdf == Tpl(<<"/", "d", "l", "/">>, TRUE, <<".", "P", "D", "F">>, <<"D", "o", "s", "s", "i", "e", "r", " ", "d", "e", " ", "c", "o",
      "n", "s", "u", "l", "t", "a", "t", "i", "o", "n">>)
T_query == Tpl(<<"p", "a", "g", "e", "?", "t", "y", "p", "e", "=", "a", "v", "i",
      "s", "&", "i", "d", "=">>, TRUE, <<>>, <<"S", "u", "i", "t", "e">>)
T_mailto == Tpl(<<"m", "a", "i", "l", "t", "o", ":", "a", "v", "i", "s", "@", "e",
      "x", "a", "m", "p", "l", "e", ".", "n", "c">>, FALSE, <<>>, <<"A", "v", "i", "s", " ", "p", "a", "r", " ", "c", "o", "u", "r",
      "r", "i", "e", "l">>)
T_tel == Tpl(<<"t", "e", "l", ":", "+", "6", "8", "7", "-">>, TRUE, <<>>, <<"C", "o", "n", "s", "u", "l", "t", "a", "t", "i", "o", "n">>)
T_upper_scheme == Tpl(<<"H", "T", "T", "P", ":", "/", "/", "E", "X", "A", "M", "P", "L",
      "E", ".", "N", "C", "/", "A", "V", "I", "S", "/">>, TRUE, <<>>, <<"A", "v", "i", "s">>)
T_other_site == Tpl(<<"h", "t", "t", "p", ":", "/", "/", "m", "a", "r", "c", "h", "e",
      "s", ".", "n", "c", "/", "F", "i", "c", "h", "e", "-">>, TRUE, <<";", "v", "=", "2", "?", "x", "=", "1", "#", "h", "a", "u", "t">>, <<>>)
T_net_only == Tpl(<<"/", "/", "c", "d", "n", ".", "n", "c", "/", "n", "o", "t", "i",
      "c", "e", "/">>, TRUE, <<>>, <<"L", "i", "r", "e">>)
T_spaces == Tpl(<<" ", " ", "/", "a", "v", "i", "s", "/">>, TRUE, <<" ">>, <<"A", "v", "i", "s">>)
T_relative == Tpl(<<"f", "i", "c">>, TRUE, <<".", "h", "t", "m", "l">>, <<"S", "u", "i", "t", "e">>)
T_fragment == Tpl(<<"#", "h", "a", "u", "t">>, FALSE, <<>>, <<"H", "a", "u", "t", " ", "d", "e", " ", "p", "a", "g", "e">>)
T_empty == Tpl(<<>>, FALSE, <<>>, <<"A", "c", "c", "u", "e", "i", "l">>)
T_bad_host == Tpl(<<"h", "t", "t", "p", ":", "/", "/", "[", "a", "v", "i", "s", "/">>, TRUE, <<>>,
                  <<"A", "v", "i", "s">>)
T_script == Tpl(<<"j", "a", "v", "a", "s", "c", "r", "i", "p", "t", ":", "v", "o",
      "i", "d", "(", "0", ")">>, FALSE, <<>>, <<"O", "f", "f", "r", "e">>)

MixedTemplates ==
    <<T_avis_n, T_contact, T_doc_text, T_plain_pdf, T_offer_pdf, T_query,
      T_mailto, T_tel, T_upper_scheme, T_other_site, T_net_only, T_spaces,
      T_relative, T_fragment, T_empty, T_script>>

Page(n, tpls, mod) == [n |-> n, tpls |-> tpls, mod |-> mod]

LinkPages ==
    {Page(2, <<T_avis_123, T_contact>>, 1),
     Page(MaxAnchors, <<T_avis_n>>, MaxAnchors),
     Page(MaxAnchors, <<T_avis_n>>, MAX_DETAIL_PER_SITE + 1),
     Page(MaxAnchors, <<T_avis_n, T_plain_pdf>>, 3),
     Page(MaxAnchors, MixedTemplates, 7),
     Page(4, <<T_avis_n, T_contact, T_bad_host>>, 4),
     Page(0, <<T_contact>>, 1)}

AnchorAt(page, i) ==
    LET t == page.tpls[((i - 1) % Len(page.tpls)) + 1]
        num == IF t.num THEN DecStr(((i - 1) % page.mod) + 1) ELSE <<>>
    IN  [href |-> t.pre \o num \o t.post, text |-> t.text]

U_example_list == <<"h", "t", "t", "p", "s", ":", "/", "/", "e", "x", "a", "m", "p",
      "l", "e", ".", "n", "c", "/", "l", "i", "s", "t">>
U_aops == <<"h", "t", "t", "p", "s", ":", "/", "/", "w", "w", "w", ".", "p",
      "r", "o", "v", "i", "n", "c", "e", "-", "s", "u", "d", ".", "n",
      "c", "/", "a", "o", "p", "s", "/">>
U_plain_http == <<"h", "t", "t", "p", ":", "/", "/", "e", "x", "a", "m", "p", "l",
      "e", ".", "n", "c">>
LinkBases == {U_example_list, U_aops, U_plain_http}

LinksIdle ==
    /\ lbase = <<>> /\ lpage = Page(0, <<>>, 1) /\ lpc = "idle" /\ li = 0
    /\ lstate = EmptyLinkState /\ lret = <<>>

InitLinks ==
    /\ lbase \in LinkBases
    /\ lpage \in LinkPages
    /\ lpc = "fetch" /\ li = 1
    /\ lstate = EmptyLinkState /\ lret = <<>>

\* r = safe_get(...) is absent: return []
LinkFetchFail ==
    /\ lpc = "fetch"
    /\ lpc' = "failed" /\ lret' = <<>>
    /\ UNCHANGED <<lbase, lpage, li, lstate>>
    /\ UNCHANGED notLinksVars

\* r is a response: the anchors are collected
LinkFetchOk ==
    /\ lpc = "fetch"
    /\ lpc' = "loop"
    /\ UNCHANGED <<lbase, lpage, li, lstate, lret>>
    /\ UNCHANGED notLinksVars

\* urljoin raises: the exception leaves find_candidate_links
LinkRaise ==
    /\ lpc = "loop" /\ li <= lpage.n
    /\ UrlJoinRaises(Strip(AnchorAt(lpage, li).href))
    /\ lpc' = "raised"
    /\ UNCHANGED <<lbase, lpage, li, lstate, lret>>
    /\ UNCHANGED notLinksVars

LinkVisit ==
    /\ lpc = "loop" /\ li <= lpage.n
    /\ ~UrlJoinRaises(Strip(AnchorAt(lpage, li).href))
    /\ lstate' = VisitAnchor(lstate, lbase, AnchorAt(lpage, li))
    /\ li' = li + 1
    /\ UNCHANGED <<lbase, lpage, lpc, lret>>
    /\ UNCHANGED notLinksVars

LinkReturn ==
    /\ lpc = "loop" /\ li > lpage.n
    /\ lret' = Truncate(lstate.cands)
    /\ lpc' = "done"
    /\ UNCHANGED <<lbase, lpage, li, lstate>>
    /\ UNCHANGED notLinksVars

NextLinks == LinkFetchFail \/ LinkFetchOk \/ LinkVisit \/ LinkRaise \/ LinkReturn

(***************************************************************************)
(* parse_detail.  A response carries its Content-Type header (or None) and *)
(* the parsed document as the sequence of its elements in document order.  *)
(* The documents of the model are flat: each element holds one text node,  *)
(* and a meta element holds the content attribute (None when missing) of a *)
(* <meta property="og:title">.                                             *)
(***************************************************************************)
Elem(tag, text) == [tag |-> tag, text |-> text, content |-> None]
MetaOg(content) == [tag |-> "meta", text |-> <<>>, content |-> content]

\* re.sub(r"\s+", " ", s): a run of whitespace leaves one blank, written at
\* its first character
CollapseWs(s) ==
    Bind(s, LAMBDA v :
        Concat([i \in 1..Len(v) |->
                   IF v[i] \notin Whitespace THEN <<v[i]>>
                   ELSE IF i = 1 \/ v[i - 1] \notin Whitespace THEN <<" ">>
                   ELSE <<>>]))

clean_text(s) ==
    Bind(s, LAMBDA v : IF v = None \/ v = <<>> THEN <<>> ELSE Strip(CollapseWs(v)))

\* tag.get_text(" ", strip=True) and tag.get_text(strip=True) of a flat element
ElemText(e) == Strip(e.text)

\* soup.get_text(" ", strip=True): the stripped non-empty strings, joined
SoupText(elems) ==
    Bind(SelectSeq(<<>> \o [i \in 1..Len(elems) |-> ElemText(elems[i])],
                   LAMBDA t : t # <<>>), LAMBDA ts :
        Concat([i \in 1..Len(ts) |-> IF i = 1 THEN ts[i] ELSE <<" ">> \o ts[i]]))

\* soup.find(tag): the index of the first element with one of the tags, or 0
FindTag(elems, tags) ==
    IF \E i \in 1..Len(elems) : elems[i].tag \in tags
    THEN CHOOSE i \in 1..Len(elems) :
             elems[i].tag \in tags /\ \A j \in 1..(i - 1) : elems[j].tag \notin tags
    ELSE 0

\* lines 193-203
TitleOf(elems) ==
    LET h1 == FindTag(elems, {"h1"})
        meta_og == FindTag(elems, {"meta"})
        title_tag == FindTag(elems, {"title"})
    IN  IF h1 # 0 /\ ElemText(elems[h1]) # <<>>
        THEN clean_text(ElemText(elems[h1]))
        ELSE IF meta_og # 0 /\ elems[meta_og].content \notin {None, <<>>}
        THEN clean_text(elems[meta_og].content)
        ELSE IF title_tag # 0 THEN clean_text(elems[title_tag].text)
        ELSE None

\* [:\s\-]
LabelSep == {":", "-"} \cup Whitespace
\* [A-ZÀ-Ÿ]: the characters of the model's alphabet in the range
InitialClass == UpperAscii \cup AccentedUpper \cup AccentedLower
\* [A-Za-z0-9 \-&'’]
NameClass == LowerAscii \cup UpperAscii \cup Digits \cup {" ", "-", "&", "'", "U2019"}
\* ([A-ZÀ-Ÿ][A-Za-z0-9 \-&'’]{3,120})
ReOrgName == Cat(<<Cls(InitialClass), Rep(NameClass, 3, 120)>>)

\* the four label patterns of lines 206-209, without their group
ReOrgLabels ==
    <<Cat(<<Lit(<<"O", "r", "g", "a", "n", "i", "s", "m", "e">>), Rep(LabelSep, 0, 30)>>),
      Cat(<<Lit(<<"M", "a">>), Cls({"i", "U00EE"}), Lit(<<"t", "r", "e", " ", "d">>),
            Cls({"'", "U2019", " "}), Lit(<<"o", "u", "v", "r", "a", "g", "e">>), Rep(LabelSep, 0, 30)>>),
      Cat(<<Lit(<<"C", "o", "l", "l", "e", "c", "t", "i", "v", "i", "t">>), Cls({"e", "U00E9"}),
            Rep({":", " ", "-"}, 0, 30)>>),
      Cat(<<Lit(<<"P", "o", "u", "v", "o", "i", "r", " ", "a", "d", "j", "u", "d",
      "i", "c", "a", "t", "e", "u", "r">>), Rep(LabelSep, 0, 30)>>)>>

\* lines 206-212: the group of the first pattern that matches
OrganismeOf(text) ==
    CHOOSE organisme \in
        {IF \E k \in 1..Len(ms) : ms[k] # NoMatch
         THEN clean_text(ms[CHOOSE k \in 1..Len(ms) :
                                /\ ms[k] # NoMatch
                                /\ \A j \in 1..(k - 1) : ms[j] = NoMatch][1])
         ELSE None :
         ms \in {<<>> \o [k \in 1..Len(ReOrgLabels) |->
                             SearchGroupFrom(ReOrgLabels[k], ReOrgName, text, 0)]}} : TRUE

\* (Réf(?:érence)?|Ref\.?|N°|No)\s*[:\-\s]{0,5}
ReRefLabel ==
    Cat(<<Alt(<<Cat(<<Lit(<<"R", "U00E9", "f">>), Opt(Lit(<<"U00E9", "r", "e", "n", "c", "e">>))>>),
               Cat(<<Lit(<<"R", "e", "f">>), Opt(Cls({"."}))>>),
               Lit(<<"N", "U00B0">>), Lit(<<"N", "o">>)>>),
          Rep(Whitespace, 0, Unbounded), Rep(LabelSep, 0, 5)>>)
\* ([A-Z0-9\-/\.]{3,60})
ReRefValue == Rep(UpperAscii \cup Digits \cup {"-", "/", "."}, 3, 60)

\* lines 215-217
ReferenceOf(text) ==
    LET mref == SearchGroupFrom(ReRefLabel, ReRefValue, text, 0)
    IN  IF mref # NoMatch THEN mref[1] ELSE None

\* lines 225-229: the first p or div whose cleaned text is longer than 60
RECURSIVE ExtraitFrom(_, _)
ExtraitFrom(elems, i) ==
    IF i > Len(elems) THEN None
    ELSE LET t == clean_text(ElemText(elems[i]))
         IN  IF elems[i].tag \in {"p", "div"} /\ Len(t) > 60
             THEN SubSeq(t, 1, IF Len(t) < 600 THEN Len(t) ELSE 600)
             ELSE ExtraitFrom(elems, i + 1)

\* a status that closes a tender on the day of its deadline
StatutOfStrict(date_limite, today) ==
    IF date_limite \notin {None, <<>>}
    THEN IF ~DateGe(today, FromIsoFormat(date_limite)) THEN "open" ELSE "closed"
    ELSE "published"

\* lines 232-239
StatutOf(date_limite, today) ==
    IF date_limite \notin {None, <<>>}
    THEN IF DateGe(FromIsoFormat(date_limite), today) THEN "open" ELSE "closed"
    ELSE "published"

S_application_pdf == <<"a", "p", "p", "l", "i", "c", "a", "t", "i", "o", "n", "/", "p",
      "d", "f">>
S_titre_pdf == <<"D", "o", "c", "u", "m", "e", "n", "t", " ", "P", "D", "F", " ",
      "(", "v", "o", "i", "r", " ", "p", "i", "U00E8", "c", "e", ")">>
S_extrait_pdf == <<"P", "D", "F", " ", "d", "U00E9", "t", "e", "c", "t", "U00E9", " ",
      "U2014", " ", "l", "e", "c", "t", "u", "r", "e", " ", "m", "a",
      "n", "u", "e", "l", "l", "e", " ", "c", "o", "n", "s", "e", "i",
      "l", "l", "U00E9", "e", ".">>

\* line 184
IsPdf(detail_url, r) ==
    \/ Contains(Lower(OrEmpty(r.ctype)), S_application_pdf)
    \/ EndsWith(Lower(detail_url), S_dot_pdf)

\* line 179
EmptyResult(detail_url) ==
    [detail_url |-> detail_url, titre |-> None, organisme |-> None,
     reference |-> None, date_publication |-> None, date_limite |-> None,
     extrait |-> None, statut |-> "unknown"]

\* lines 183-187
PdfResult(detail_url) ==
    [EmptyResult(detail_url) EXCEPT !.titre = S_titre_pdf, !.extrait = S_extrait_pdf]

\* lines 189-241
FieldsOf(detail_url, elems, text, today) ==
    CHOOSE result \in
        {[detail_url |-> detail_url,
          titre |-> TitleOf(elems),
          organisme |-> organisme,
          reference |-> ReferenceOf(text),
          date_publication |-> dates[1],
          date_limite |-> dates[2],
          extrait |-> ExtraitFrom(elems, 1),
          statut |-> StatutOf(dates[2], today)] :
         dates \in {parse_dates_from_text(text, today)},
         organisme \in {OrganismeOf(text)}} : TRUE

HtmlResult(detail_url, r, today) ==
    CHOOSE result \in {FieldsOf(detail_url, elems, text, today) :
                       elems \in {r.elems}, text \in {SoupText(r.elems)}} : TRUE

\* parse_detail with r the value safe_get returned
parse_detail(detail_url, r, today) ==
    IF r = NoResponse THEN EmptyResult(detail_url)
    ELSE IF IsPdf(detail_url, r) THEN PdfResult(detail_url)
    ELSE HtmlResult(detail_url, r, today)

(***************************************************************************)
(* The detail pages of the model, and parse_detail run on each of them     *)
(* under each outcome of its fetch.                                        *)
(***************************************************************************)
P_notice ==
    Elem("p", <<"O", "r", "g", "a", "n", "i", "s", "m", "e", " ", ":", " ", "M",
      "a", "i", "r", "i", "e", " ", "d", "e", " ", "D", "u", "m", "b",
      "e", "a", " ", "-", " ", "R", "U00E9", "f", ":", " ", "A", "O",
      "-", "2", "0", "2", "4", "/", "1", "2", " ", "-", " ", "A", "v",
      "i", "s", " ", "d", "u", " ", "1", "0", "/", "0", "1", "/", "2",
      "0", "2", "4", ",", " ", "d", "a", "t", "e", " ", "l", "i", "m",
      "i", "t", "e", " ", "2", "0", "/", "0", "4", "/", "2", "0", "2",
      "4", ".">>)
P_same_date_twice ==
    Elem("div", <<"R", "e", "m", "i", "s", "e", " ", "d", "e", "s", " ", "o", "f",
      "f", "r", "e", "s", " ", "l", "e", " ", "2", "0", "/", "0", "4",
      "/", "2", "0", "2", "4", " ", ";", " ", "o", "u", "v", "e", "r",
      "t", "u", "r", "e", " ", "d", "e", "s", " ", "p", "l", "i", "s",
      " ", "l", "e", " ", "2", "0", "/", "0", "4", "/", "2", "0", "2",
      "4", " ", "e", "n", " ", "m", "a", "i", "r", "i", "e", ".">>)
P_today_dependent ==
    Elem("p", <<"P", "o", "u", "v", "o", "i", "r", " ", "a", "d", "j", "u", "d",
      "i", "c", "a", "t", "e", "u", "r", ":", " ", "O", "P", "T", " ",
      "N", "C", ".", " ", "C", "o", "n", "s", "u", "l", "t", "a", "t",
      "i", "o", "n", " ", "N", "o", " ", "4", "5", "-", "B", " ", "l",
      "a", "n", "c", "U00E9", "e", " ", "l", "e", " ", "5", " ", "m",
      "a", "r", "s", " ", "2", "0", "2", "4", ".">>)
P_labeled == Elem("span", <<"D", "a", "t", "e", " ", "l", "i", "m", "i", "t", "e", ":", " ",
      "1", "5", " ", "m", "a", "r", "s", " ", "2", "0", "2", "4">>)
P_short == Elem("p", <<"T", "r", "a", "v", "a", "u", "x">>)
P_long == Elem("div", [i \in 1..650 |-> IF i % 5 = 0 THEN " " ELSE "m"])

DetailDocs ==
    {<<Elem("title", <<"P", "o", "r", "t", "a", "i", "l">>), Elem("h1", <<" ", "A", "v", "i", "s", " ", " ", "d", "'", "a", "p", "p", "e",
      "l", " ">>), P_notice>>,
     <<Elem("h1", <<" ", " ">>), MetaOg(<<"T", "i", "t", "r", "e", " ", " ", "O", "G">>), Elem("title", <<"P", "o", "r", "t", "a", "i", "l">>),
       P_short, P_same_date_twice>>,
     <<MetaOg(None), Elem("title", <<" ", "P", "a", "g", "e", "\n", " ", "1", " ">>),
       P_today_dependent>>,
     <<Elem("title", <<>>), P_labeled>>,
     <<Elem("h1", <<"L", "o", "t", " ", "2">>), Elem("h1", <<"L", "o", "t", " ", "3">>), P_long, P_notice>>,
     <<P_short, P_labeled, P_same_date_twice>>,
     <<>>}

DetailUrls == {<<"h", "t", "t", "p", "s", ":", "/", "/", "e", "x", "a", "m", "p",
      "l", "e", ".", "n", "c", "/", "a", "v", "i", "s", "/", "1">>, <<"h", "t", "t", "p", "s", ":", "/", "/", "e", "x", "a", "m", "p",
      "l", "e", ".", "n", "c", "/", "d", "o", "c", "/", "7", ".", "P",
      "D", "F">>}
ContentTypes == {None, <<"t", "e", "x", "t", "/", "h", "t", "m", "l", ";", " ", "c", "h",
      "a", "r", "s", "e", "t", "=", "u", "t", "f", "-", "8">>, <<"A", "p", "p", "l", "i", "c", "a", "t", "i", "o", "n", "/", "P",
      "D", "F">>}
DetailTodays == {Day(2024, 4, 19), Day(2024, 4, 20), Day(2024, 4, 21), Day(2026, 2, 28)}

DetailIdle ==
    /\ purl = <<>> /\ pdoc = <<>> /\ pctype = None /\ ptoday = Day(1, 1, 1)
    /\ ppc = "idle" /\ presp = NoResponse /\ pres = EmptyResult(<<>>)

InitDetail ==
    /\ purl \in DetailUrls
    /\ pdoc \in DetailDocs
    /\ pctype \in ContentTypes
    /\ ptoday \in DetailTodays
    /\ ppc = "fetch" /\ presp = NoResponse /\ pres = EmptyResult(<<>>)

\* safe_get returned None
DetailAbsent ==
    /\ ppc = "fetch"
    /\ presp' = NoResponse
    /\ pres' = parse_detail(purl, NoResponse, ptoday)
    /\ ppc' = "absent"
    /\ UNCHANGED <<purl, pdoc, pctype, ptoday>>
    /\ UNCHANGED notDetailVars

\* safe_get returned a response that the PDF test accepts
DetailPdf ==
    /\ ppc = "fetch"
    /\ IsPdf(purl, [ctype |-> pctype, elems |-> pdoc])
    /\ presp' = [ctype |-> pctype, elems |-> pdoc]
    /\ pres' = parse_detail(purl, presp', ptoday)
    /\ ppc' = "pdf"
    /\ UNCHANGED <<purl, pdoc, pctype, ptoday>>
    /\ UNCHANGED notDetailVars

\* safe_get returned a response that is parsed as HTML
DetailHtml ==
    /\ ppc = "fetch"
    /\ ~IsPdf(purl, [ctype |-> pctype, elems |-> pdoc])
    /\ presp' = [ctype |-> pctype, elems |-> pdoc]
    /\ pres' = parse_detail(purl, presp', ptoday)
    /\ ppc' = "html"
    /\ UNCHANGED <<purl, pdoc, pctype, ptoday>>
    /\ UNCHANGED notDetailVars

NextDetail == DetailAbsent \/ DetailPdf \/ DetailHtml

(***************************************************************************)
(* main: the driver.  The persistence collaborator is two tables, each a   *)
(* set of rows with one row per conflict key.  The current date is fixed   *)
(* for the length of a run; the listing page of each source and the detail *)
(* page of each URL are the same in every run, and each fetch either       *)
(* obtains that page or, its attempts exhausted, obtains nothing.  A call  *)
(* of the database either stores its row and returns, or raises; when it   *)
(* raises, the table may or may not have taken the row (the request can    *)
(* fail before it is served, and the line that reads the id out of the     *)
(* answer can fail after it).  The driver is run twice in a row against    *)
(* the same tables, and MaxFaults bounds the failures the two runs meet.   *)
(***************************************************************************)
\* the configured sources, in the order of the list
START_SOURCES ==
    <<[nom |-> <<"P", "o", "r", "t", "a", "i", "l", " ", "M", "a", "r", "c",
               "h", "U00E9", "s", " ", "P", "u", "b", "l", "i", "c", "s",
               " ", "N", "C">>,
       url |-> <<"h", "t", "t", "p", "s", ":", "/", "/", "p", "o", "r", "t",
               "a", "i", "l", ".", "m", "a", "r", "c", "h", "e", "s", "p",
               "u", "b", "l", "i", "c", "s", ".", "n", "c", "/", "?", "p",
               "a", "g", "e", "=", "E", "n", "t", "r", "e", "p", "r", "i",
               "s", "e", ".", "E", "n", "t", "r", "e", "p", "r", "i", "s",
               "e", "A", "d", "v", "a", "n", "c", "e", "d", "S", "e", "a",
               "r", "c", "h", "&", "s", "e", "a", "r", "c", "h", "A", "n",
               "n", "C", "o", "n", "s">>],
      [nom |-> <<"B", "O", "A", "M", "P", " ", "U2013", " ", "9", "8", "8">>,
       url |-> <<"h", "t", "t", "p", "s", ":", "/", "/", "w", "w", "w", ".",
               "b", "o", "a", "m", "p", ".", "f", "r", "/", "p", "a", "g",
               "e", "s", "/", "r", "e", "c", "h", "e", "r", "c", "h", "e",
               "/", "?", "r", "e", "f", "i", "n", "e", ".", "c", "o", "d",
               "e", "_", "d", "e", "p", "a", "r", "t", "e", "m", "e", "n",
               "t", "=", "9", "8", "8">>],
      [nom |-> <<"e", "-", "M", "a", "r", "c", "h", "e", "s", "P", "u", "b",
               "l", "i", "c", "s", " ", "U2013", " ", "N", "C">>,
       url |-> <<"h", "t", "t", "p", "s", ":", "/", "/", "w", "w", "w", ".",
               "e", "-", "m", "a", "r", "c", "h", "e", "s", "p", "u", "b",
               "l", "i", "c", "s", ".", "c", "o", "m", "/", "a", "p", "p",
               "e", "l", "-", "o", "f", "f", "r", "e", "/", "o", "u", "t",
               "r", "e", "-", "m", "e", "r", "/", "n", "o", "u", "v", "e",
               "l", "l", "e", "-", "c", "a", "l", "e", "d", "o", "n", "i",
               "e", "/">>],
      [nom |-> <<"P", "r", "o", "v", "i", "n", "c", "e", " ", "S", "u", "d",
               " ", "U2013", " ", "A", "O", "P", "s">>,
       url |-> U_aops],
      [nom |-> <<"P", "r", "o", "v", "i", "n", "c", "e", " ", "N", "o", "r",
               "d">>,
       url |-> <<"h", "t", "t", "p", "s", ":", "/", "/", "m", "a", "r", "c",
               "h", "e", "s", "p", "u", "b", "l", "i", "c", "s", ".", "p",
               "r", "o", "v", "i", "n", "c", "e", "-", "n", "o", "r", "d",
               ".", "n", "c", "/", "s", "a", "l", "l", "e", "m", "a", "r",
               "c", "h", "e", ".", "a", "s", "p", "x">>],
      [nom |-> <<"P", "r", "o", "v", "i", "n", "c", "e", " ", "d", "e", "s",
               " ", "U00CE", "l", "e", "s">>,
       url |-> <<"h", "t", "t", "p", "s", ":", "/", "/", "w", "w", "w", ".",
               "p", "r", "o", "v", "i", "n", "c", "e", "-", "i", "l", "e",
               "s", ".", "n", "c", "/", "a", "p", "p", "e", "l", "-", "o",
               "f", "f", "r", "e", "s">>],
      [nom |-> <<"M", "o", "n", "t", "-", "D", "o", "r", "e">>,
       url |-> <<"h", "t", "t", "p", "s", ":", "/", "/", "w", "w", "w", ".",
               "m", "o", "n", "t", "-", "d", "o", "r", "e", ".", "n", "c",
               "/", "m", "a", "r", "c", "h", "e", "s", "-", "p", "u", "b",
               "l", "i", "c", "s">>],
      [nom |-> <<"D", "u", "m", "b", "U00E9", "a">>,
       url |-> <<"h", "t", "t", "p", "s", ":", "/", "/", "w", "w", "w", ".",
               "v", "i", "l", "l", "e", "-", "d", "u", "m", "b", "e", "a",
               ".", "n", "c", "/", "d", "u", "m", "b", "e", "a", "-", "p",
               "r", "a", "t", "i", "q", "u", "e", "/", "m", "a", "r", "c",
               "h", "e", "s", "-", "p", "u", "b", "l", "i", "c", "s">>],
      [nom |-> <<"I", "F", "A", "P">>,
       url |-> <<"h", "t", "t", "p", "s", ":", "/", "/", "w", "w", "w", ".",
               "i", "f", "a", "p", ".", "n", "c", "/", "c", "o", "n", "s",
               "u", "l", "t", "a", "t", "i", "o", "n", "s">>],
      [nom |-> <<"C", "C", "I", " ", "N", "C">>,
       url |-> <<"h", "t", "t", "p", "s", ":", "/", "/", "w", "w", "w", ".",
               "c", "c", "i", ".", "n", "c", "/", "l", "a", "-", "c", "c",
               "i", "-", "n", "c", "/", "a", "p", "p", "e", "l", "s", "-",
               "d", "-", "o", "f", "f", "r", "e", "s", "-", "e", "t", "-",
               "c", "o", "n", "s", "u", "l", "t", "a", "t", "i", "o", "n",
               "s">>],
      [nom |-> <<"U", "N", "C">>,
       url |-> <<"h", "t", "t", "p", "s", ":", "/", "/", "u", "n", "c", ".",
               "n", "c", "/", "u", "t", "i", "l", "e", "/", "a", "p", "p",
               "e", "l", "-", "d", "o", "f", "f", "r", "e", "s", "/">>]>>

S_sans_titre == <<"(", "S", "a", "n", "s", " ", "t", "i", "t", "r", "e", ")">>

\* Python's `v or d` for v a string or None
OrDefault(v, d) == IF v \in {None, <<>>} THEN d ELSE v

\* upsert(..., on_conflict="url"): the row replaces the one with its url
UpsertSource(tbl, row) == {x \in tbl : x.url # row.url} \cup {row}

\* the row upsert_url_source sends for the source at index s
SourceRow(s) ==
    [nom |-> START_SOURCES[s].nom, url |-> START_SOURCES[s].url, actif |-> TRUE]

\* the id of the row of a source: one id per url
SourceId(url) == [source |-> url]

\* an insert that leaves an existing row with the same detail_url in place
InsertAppelIfNew(tbl, rec) ==
    IF \E x \in tbl : x.detail_url = rec.detail_url THEN tbl ELSE tbl \cup {rec}

\* upsert(rec, on_conflict="detail_url"): rec replaces the row with its
\* detail_url
UpsertAppel(tbl, rec) == {x \in tbl : x.detail_url # rec.detail_url} \cup {rec}

\* the dictionary rec of upsert_appel
AppelRecord(url_source_id, detail_url, titre, organisme, reference, date_publication, date_limite, statut, extrait) ==
    [url_source_id |-> url_source_id,
     detail_url |-> detail_url,
     titre |-> OrDefault(titre, S_sans_titre),
     organisme |-> organisme,
     reference |-> reference,
     date_publication |-> date_publication,
     date_limite |-> date_limite,
     statut |-> statut,
     extrait |-> extrait,
     content_hash |-> stable_hash(<<titre, organisme, detail_url,
                                    date_publication, date_limite, extrait>>)]

\* the record that main hands to upsert_appel for the result of parse_detail
HandedRecord(source_id, u, detail) ==
    AppelRecord(source_id, u,
                OrDefault(detail.titre, S_sans_titre),
                detail.organisme, detail.reference,
                detail.date_publication, detail.date_limite,
                IF detail.statut = "" THEN "unknown" ELSE detail.statut,
                detail.extrait)

\* find_candidate_links with r the value safe_get returned
find_candidate_links(listing_url, r) ==
    IF r = NoResponse THEN [raised |-> FALSE, cands |-> <<>>]
    ELSE IF DiscoveryRaises(r.anchors) THEN [raised |-> TRUE, cands |-> <<>>]
    ELSE [raised |-> FALSE, cands |-> CandidateLinks(listing_url, r.anchors)]

\* an exception of the body of the try that leaves main
OnCandidateExceptionPropagates == "aborted"

\* where control goes when the body of the try raises: the handler prints
\* and the loop goes on
OnCandidateException == "cand"

\* ---- the pages served ----
Anchors(page) == <<>> \o [i \in 1..page.n |-> AnchorAt(page, i)]
ListingResponse(page) == [anchors |-> Anchors(page)]

Pg_sud == Page(3, <<T_avis_n, T_contact, T_offer_pdf>>, 3)
Pg_sud_bad == Page(2, <<T_avis_n, T_bad_host>>, 2)
Pg_ifap == Page(2, <<T_avis_n>>, 1)
\* a listing page without a link
Pg_no_link == Page(0, <<T_contact>>, 1)
\* the listing pages of the sources: two of them have links
WebWith(sud) ==
    <<Pg_no_link, Pg_no_link, Pg_no_link, sud, Pg_no_link, Pg_no_link,
      Pg_no_link, Pg_no_link, Pg_ifap, Pg_no_link, Pg_no_link>>
DriverWebs == {WebWith(Pg_sud), WebWith(Pg_sud_bad)}

Ct_html == <<"t", "e", "x", "t", "/", "h", "t", "m", "l", ";", " ", "c", "h",
      "a", "r", "s", "e", "t", "=", "u", "t", "f", "-", "8">>
Doc_notice == <<Elem("h1", <<"A", "v", "i", "s", " ", "d", "'", "a", "p", "p", "e", "l">>), P_notice>>
Doc_today_dependent == <<Elem("title", <<"C", "o", "n", "s", "u", "l", "t", "a", "t", "i", "o", "n", " ",
      "4", "5", "-", "B">>), P_today_dependent>>

\* the response of the detail page of a URL
DetailPageAt(u) ==
    IF EndsWith(Lower(u), S_dot_pdf)
    THEN [ctype |-> S_application_pdf, elems |-> <<>>]
    ELSE IF Contains(u, <<"i", "f", "a", "p">>)
    THEN [ctype |-> Ct_html, elems |-> Doc_today_dependent]
    ELSE [ctype |-> Ct_html, elems |-> Doc_notice]

DriverTodays == {Day(2024, 4, 20), Day(2026, 2, 28)}

\* the value safe_get returns for the detail page of u when its fetch
\* obtains `fetch`
FetchedAt(u, fetch) == IF fetch = "absent" THEN NoResponse ELSE DetailPageAt(u)

\* the candidates the listing `page` of source s gives
CandidatesAt(s, page) ==
    CHOOSE cs \in {{found.cands[i] : i \in 1..Len(found.cands)} :
                    found \in {find_candidate_links(START_SOURCES[s].url,
                                                    ListingResponse(page))}} : TRUE

\* the iterations the pages served allow: a source and one of its candidates
DriverIterations ==
    UNION {{<<s, u>> : u \in CandidatesAt(s, w[s])} :
           s \in 1..Len(START_SOURCES), w \in DriverWebs}

\* lines 257-269 for each of these iterations, each date and each value
\* the fetch can obtain: detail = parse_detail(session, u) and the record
\* upsert_appel builds from it
HandedTable ==
    [it \in DriverIterations, today \in DriverTodays, fetch \in {"absent", "page"} |->
        HandedRecord(SourceId(START_SOURCES[it[1]].url), it[2],
                     parse_detail(it[2], FetchedAt(it[2], fetch), today))]

\* what one iteration of the loop over cand did: the value its fetch
\* obtained ("page" or "absent"; "unrecorded" when the iteration raised
\* before the table took a record), the record the table took (None when
\* it took none), and how the iteration ended
LogEntry(run, src, u, fetch, handed, outcome) ==
    [run |-> run, src |-> src, url |-> u, fetch |-> fetch,
     handed |-> handed, outcome |-> outcome]

\* the failures the two runs meet between them are at most this many
MaxFaults == 3
\* the failures in a fetch that obtained `fetch`
FaultsOf(fetch) == IF fetch = "absent" THEN 1 ELSE 0

DriverIdle ==
    /\ mweb = <<>> /\ mrun = 0 /\ mtoday = Day(1, 1, 1) /\ mpc = "idle"
    /\ msrc = 0 /\ mcand = <<>> /\ mk = 0 /\ mdisc = <<>> /\ mlog = <<>>
    /\ msources = {} /\ mstore = {} /\ mabort = "none" /\ mfaults = 0

InitDriver ==
    /\ mweb \in DriverWebs
    /\ mrun = 1
    /\ mtoday \in DriverTodays
    /\ mpc = "start"
    /\ msrc = 0 /\ mcand = <<>> /\ mk = 0 /\ mdisc = <<>> /\ mlog = <<>>
    /\ msources = {} /\ mstore = {} /\ mabort = "none" /\ mfaults = 0

\* get_supabase raises RuntimeError: a variable of the environment is unset
MainConfigMissing ==
    /\ mpc = "start" /\ mfaults < MaxFaults
    /\ mpc' = "aborted" /\ mabort' = "config"
    /\ mfaults' = mfaults + 1
    /\ UNCHANGED <<mweb, mrun, mtoday, msrc, mcand, mk, mdisc, mlog, msources, mstore>>
    /\ UNCHANGED notDriverVars

\* sb = get_supabase(); session = requests.Session()
MainGetClient ==
    /\ mpc = "start"
    /\ mpc' = "source" /\ msrc' = 1
    /\ UNCHANGED <<mweb, mrun, mtoday, mcand, mk, mdisc, mlog, msources, mstore,
                   mabort, mfaults>>
    /\ UNCHANGED notDriverVars

\* upsert_url_source raises, before the table took the row or after it
\* did: nothing around the call catches it
MainRegisterRaises ==
    /\ mpc = "source" /\ msrc <= Len(START_SOURCES) /\ mfaults < MaxFaults
    /\ msources' \in {msources, UpsertSource(msources, SourceRow(msrc))}
    /\ mpc' = "aborted" /\ mabort' = "register"
    /\ mfaults' = mfaults + 1
    /\ UNCHANGED <<mweb, mrun, mtoday, msrc, mcand, mk, mdisc, mlog, mstore>>
    /\ UNCHANGED notDriverVars

\* source_id = upsert_url_source(sb, nom=nom, url=listing_url)
MainRegister ==
    /\ mpc = "source" /\ msrc <= Len(START_SOURCES)
    /\ msources' = UpsertSource(msources, SourceRow(msrc))
    /\ mpc' = "discover"
    /\ UNCHANGED <<mweb, mrun, mtoday, msrc, mcand, mk, mdisc, mlog, mstore, mabort,
                   mfaults>>
    /\ UNCHANGED notDriverVars

\* cand = find_candidate_links(session, listing_url) returns a list
MainDiscover ==
    /\ mpc = "discover"
    /\ \E fetch \in {"absent", "page"} :
       \E r \in {IF fetch = "absent" THEN NoResponse ELSE ListingResponse(mweb[msrc])} :
       \E found \in {find_candidate_links(START_SOURCES[msrc].url, r)} :
          /\ ~found.raised
          /\ mfaults + FaultsOf(fetch) <= MaxFaults
          /\ mfaults' = mfaults + FaultsOf(fetch)
          /\ mcand' = found.cands
          /\ mdisc' = Append(mdisc, found.cands)
    /\ mk' = 1 /\ mpc' = "cand"
    /\ UNCHANGED <<mweb, mrun, mtoday, msrc, mlog, msources, mstore, mabort>>
    /\ UNCHANGED notDriverVars

\* find_candidate_links raises on the page it fetched: nothing around the
\* call catches it
MainDiscoverRaises ==
    /\ mpc = "discover"
    /\ \E r \in {ListingResponse(mweb[msrc])} :
          find_candidate_links(START_SOURCES[msrc].url, r).raised
    /\ mpc' = "aborted" /\ mabort' = "discover"
    /\ UNCHANGED <<mweb, mrun, mtoday, msrc, mcand, mk, mdisc, mlog, msources, mstore,
                   mfaults>>
    /\ UNCHANGED notDriverVars

\* one iteration of the loop over cand in which nothing raises
MainCandidate ==
    /\ mpc = "cand" /\ mk <= Len(mcand)
    /\ \E fetch \in {"absent", "page"} :
       \E rec \in {HandedTable[<<msrc, mcand[mk]>>, mtoday, fetch]} :
          /\ mfaults + FaultsOf(fetch) <= MaxFaults
          /\ mfaults' = mfaults + FaultsOf(fetch)
          /\ mstore' = UpsertAppel(mstore, rec)
          /\ mlog' = Append(mlog, LogEntry(mrun, msrc, mcand[mk], fetch, rec,
                                           "upserted"))
    /\ mk' = mk + 1
    /\ UNCHANGED <<mweb, mrun, mtoday, mpc, msrc, mcand, mdisc, msources, mabort>>
    /\ UNCHANGED notDriverVars

\* one iteration in which parse_detail or upsert_appel raises, upsert_appel
\* before the table took the record or after it did: the except clause
\* prints the URL and the exception
MainCandidateRaises ==
    /\ mpc = "cand" /\ mk <= Len(mcand)
    /\ \/ /\ mfaults < MaxFaults
          /\ mfaults' = mfaults + 1
          /\ mstore' = mstore
          /\ mlog' = Append(mlog, LogEntry(mrun, msrc, mcand[mk], "unrecorded",
                                           None, "failed"))
       \/ \E fetch \in {"absent", "page"} :
          \E rec \in {HandedTable[<<msrc, mcand[mk]>>, mtoday, fetch]} :
             /\ mfaults + FaultsOf(fetch) < MaxFaults
             /\ mfaults' = mfaults + FaultsOf(fetch) + 1
             /\ mstore' = UpsertAppel(mstore, rec)
             /\ mlog' = Append(mlog, LogEntry(mrun, msrc, mcand[mk], fetch, rec,
                                              "failed"))
    /\ mpc' = OnCandidateException
    /\ mk' = IF mpc' = "cand" THEN mk + 1 ELSE mk
    /\ mabort' = IF mpc' = "aborted" THEN "candidate" ELSE mabort
    /\ UNCHANGED <<mweb, mrun, mtoday, msrc, mcand, mdisc, msources>>
    /\ UNCHANGED notDriverVars

\* the loop over cand is exhausted: the next source
MainNextSource ==
    /\ mpc = "cand" /\ mk > Len(mcand)
    /\ msrc' = msrc + 1 /\ mpc' = "source"
    /\ UNCHANGED <<mweb, mrun, mtoday, mcand, mk, mdisc, mlog, msources, mstore,
                   mabort, mfaults>>
    /\ UNCHANGED notDriverVars

\* the loop over START_SOURCES is exhausted
MainDone ==
    /\ mpc = "source" /\ msrc > Len(START_SOURCES)
    /\ mpc' = "done"
    /\ UNCHANGED <<mweb, mrun, mtoday, msrc, mcand, mk, mdisc, mlog, msources, mstore,
                   mabort, mfaults>>
    /\ UNCHANGED notDriverVars

\* the script is started a second time, on the same day or on a later one
MainRerun ==
    /\ mpc \in {"done", "aborted"} /\ mrun = 1
    /\ mrun' = mrun + 1
    /\ mtoday' \in DriverTodays
    /\ mpc' = "start" /\ msrc' = 0 /\ mcand' = <<>> /\ mk' = 0
    /\ mdisc' = <<>> /\ mabort' = "none"
    /\ UNCHANGED <<mweb, mlog, msources, mstore, mfaults>>
    /\ UNCHANGED notDriverVars

NextDriver ==
    \/ MainConfigMissing \/ MainGetClient \/ MainRegisterRaises \/ MainRegister
    \/ MainDiscover \/ MainDiscoverRaises \/ MainCandidate \/ MainCandidateRaises
    \/ MainNextSource \/ MainDone \/ MainRerun

(***************************************************************************)
(* Specifications: one per component, the others idle                      *)
(***************************************************************************)
StartHash == InitHash /\ GetIdle /\ DatesIdle /\ LinksIdle /\ DetailIdle /\ DriverIdle
StartGet == InitGet /\ HashIdle /\ DatesIdle /\ LinksIdle /\ DetailIdle /\ DriverIdle
StartDates == InitDates /\ HashIdle /\ GetIdle /\ LinksIdle /\ DetailIdle /\ DriverIdle
StartLinks == InitLinks /\ HashIdle /\ GetIdle /\ DatesIdle /\ DetailIdle /\ DriverIdle
StartDetail == InitDetail /\ HashIdle /\ GetIdle /\ DatesIdle /\ LinksIdle /\ DriverIdle

StartDriver == InitDriver /\ HashIdle /\ GetIdle /\ DatesIdle /\ LinksIdle /\ DetailIdle

SpecHash == StartHash /\ [][NextHash]_vars
SpecGet == StartGet /\ [][NextGet]_vars
SpecDates == StartDates /\ [][NextDates]_vars
SpecLinks == StartLinks /\ [][NextLinks]_vars
SpecDetail == StartDetail /\ [][NextDetail]_vars
SpecDriver == StartDriver /\ [][NextDriver]_vars

(***************************************************************************)
(* Properties                                                              *)
(***************************************************************************)
\* absent is treated as the empty string
RECURSIVE AbsentAsEmpty(_)
AbsentAsEmpty(parts) ==
    IF parts = <<>> THEN <<>>
    ELSE <<OrEmpty(Head(parts))>> \o AbsentAsEmpty(Tail(parts))

\* C1: two six-field tuples that differ in at least one field value (absent
\* read as the empty string) feed different bytes to the hash, so their
\* digests differ.
C1_Injective ==
    (HashDone /\ AbsentAsEmpty(hpartsA) # AbsentAsEmpty(hpartsB))
        => stable_hash(hpartsA) # stable_hash(hpartsB) /\ hfedA # hfedB

\* C5: safe_get makes at most retries+1 attempts, returns a response only
\* from an attempt that answered 200 and at the first such attempt, returns
\* None when every attempt failed, never lets an exception out, and sleeps
\* 1+k seconds after failed attempt k (counted from 0).
C5_SafeGet ==
    /\ gpc \in {"get", "sleep", "done"}
    /\ Len(glog) <= gretries + 1
    /\ \A k \in 1..Len(gslept) : gslept[k] = 1 + (k - 1) /\ ~Is200(glog[k])
    /\ \A k \in 1..(Len(glog) - 1) : ~Is200(glog[k])
    /\ gpc = "get" => Len(gslept) = Len(glog)
    /\ gpc = "done" =>
          /\ gret # NoResponse =>
                /\ Is200(glog[Len(glog)])
                /\ gret.status = 200
                /\ gret.attempt = Len(glog) - 1
                /\ Len(gslept) = Len(glog) - 1
          /\ gret = NoResponse =>
                /\ Len(glog) = gretries + 1
                /\ \A k \in 1..Len(glog) : ~Is200(glog[k])
                /\ Len(gslept) = gretries + 1
    /\ gpc # "done" => ENABLED NextGet

C5_Witness ==
    /\ gpc = "done" /\ gretries = DefaultRetries /\ gret # NoResponse
    /\ glog = <<Raised, Answered(404), Answered(200)>> /\ gslept = <<1, 2>>

\* the earliest and the latest of a non-empty set of ISO dates
Earliest(ds) == CHOOSE x \in ds : \A y \in ds : ~StrLess(y, x)
Latest(ds) == CHOOSE x \in ds : \A y \in ds : ~StrLess(x, y)
ParsedSet == {dparsed[k] : k \in 1..Len(dparsed)}
S_2024_04_20 == <<"2", "0", "2", "4", "-", "0", "4", "-", "2", "0">>
TextLabel2004 == Fr_label \o Fr_20_04_2024

\* C6: when at least one matched substring parses, publication is the
\* earliest parsed date, deadline is the latest one if more than one
\* distinct date was found and absent otherwise, and publication < deadline
\* whenever both are present.
C6_EarliestLatestDistinct ==
    (dpc = "done" /\ dparsed # <<>>) =>
        /\ dret[1] = Earliest(ParsedSet)
        /\ dret[2] = IF Cardinality(ParsedSet) > 1 THEN Latest(ParsedSet) ELSE None
        /\ dret[2] # None => StrLess(dret[1], dret[2])

\* C7: the labeled fallback is taken exactly when no generic date pattern
\* matched, and "date limite: 20/04/2024" yields (absent, 2024-04-20).
C7_FallbackWhenNoMatch ==
    dpc = "done" =>
        /\ dfallback <=> (dpatt = <<>>)
        /\ dtext = TextLabel2004 => dret = <<None, S_2024_04_20>>

(***************************************************************************)
(* find_candidate_links against its description                            *)
(***************************************************************************)
\* the absolute URL of anchor i of the page served
AbsOf(i) == UrlJoin(lbase, Strip(AnchorAt(lpage, i).href))
\* keep rule (a): a keyword occurs in the URL or in the anchor text
RuleA(i) == likely_offer_link(AbsOf(i), AnchorAt(lpage, i).text)
\* keep rule (b): a path keyword occurs in the path of the URL
RuleB(i) == AnyIn(PATH_KEYWORDS, Lower(UrlPath(AbsOf(i))))
\* keep rule (c): the URL ends in .pdf and rule (a) holds
RuleC(i) == EndsWith(Lower(AbsOf(i)), S_dot_pdf) /\ RuleA(i)
Qualifies(i) == IsHttpUrl(AbsOf(i)) /\ (RuleA(i) \/ RuleB(i))
\* C8: the list returned by find_candidate_links holds only http/https URLs,
\* no URL twice, in the order of the first qualifying anchors, and is the
\* first MAX_DETAIL_PER_SITE entries of the untruncated deduplicated list;
\* every returned URL satisfies rule (a) or (b), and the .pdf branch never
\* appends a URL: whatever rule (c) accepts, the first branch has kept.
C8_Discover ==
    /\ lpc = "failed" => lret = <<>>
    /\ \A k \in 1..Len(lstate.via) : lstate.via[k] = "main"
    /\ lpc = "done" =>
        LET abs == [i \in 1..lpage.n |-> AbsOf(i)]
            \* the anchors that are the first qualifying anchor of their URL,
            \* and the position of each among them
            qual == [i \in 1..lpage.n |-> Qualifies(i)]
            first == {i \in 1..lpage.n :
                        qual[i] /\ \A j \in 1..(i - 1) : ~(qual[j] /\ abs[j] = abs[i])}
            rank == [i \in first |-> Cardinality({j \in first : j <= i})]
        IN  /\ \A k \in 1..Len(lret) : IsHttpUrl(lret[k])
            /\ \A k, m \in 1..Len(lret) : lret[k] = lret[m] => k = m
            /\ Len(lret) <= MAX_DETAIL_PER_SITE
            /\ Len(lret) = IF Cardinality(first) < MAX_DETAIL_PER_SITE
                           THEN Cardinality(first) ELSE MAX_DETAIL_PER_SITE
            /\ Len(lstate.cands) = Cardinality(first)
            /\ \A i \in first :
                   /\ lstate.cands[rank[i]] = abs[i]
                   /\ rank[i] <= MAX_DETAIL_PER_SITE => lret[rank[i]] = abs[i]
            /\ \A i \in 1..lpage.n :
                   IsHttpUrl(abs[i]) /\ RuleC(i) => \E k \in 1..Len(lstate.cands) :
                                                       lstate.cands[k] = abs[i]

\* a page with more than MAX_DETAIL_PER_SITE distinct qualifying URLs, some
\* anchors repeating a URL, has been walked and its list truncated
C8_Witness ==
    /\ lpc = "done"
    /\ Len(lstate.cands) > MAX_DETAIL_PER_SITE
    /\ Len(lret) = MAX_DETAIL_PER_SITE
    /\ lpage.n > Len(lstate.cands)

(***************************************************************************)
(* parse_detail: the status of the returned record                         *)
(***************************************************************************)
\* the ISO string of a date, written out from its fields
IsoOf(day) == Pad4(day.y) \o <<"-">> \o Pad2(day.m) \o <<"-">> \o Pad2(day.d)

\* C9: the status is one of open, closed, published, unknown; with a
\* deadline it is open when the deadline is today or later and closed when
\* it is before today; without a deadline on a page parsed as HTML it is
\* published; it is unknown exactly when the fetch failed or the PDF
\* short-circuit was taken.
C9_Status ==
    ppc \in {"absent", "pdf", "html"} =>
        /\ pres.statut \in {"open", "closed", "published", "unknown"}
        /\ pres.detail_url = purl
        /\ ppc = "html" /\ pres.date_limite # None =>
               pres.statut = IF StrLess(pres.date_limite, IsoOf(ptoday))
                             THEN "closed" ELSE "open"
        /\ ppc = "html" /\ pres.date_limite = None => pres.statut = "published"
        /\ pres.statut = "unknown" <=> ppc \in {"absent", "pdf"}
        /\ ppc \in {"absent", "pdf"} => pres.date_limite = None

\* a page whose deadline is the day before the current date was parsed and
\* found closed
C9_Witness ==
    /\ ppc = "html"
    /\ ptoday = Day(2024, 4, 21)
    /\ pres.date_limite = S_2024_04_20
    /\ pres.statut = "closed"

(***************************************************************************)
(* Properties of the driver                                                *)
(***************************************************************************)
\* C2: two runs over the same seeds and the same fetch responses hand the
\* same content fingerprint to upsert_appel for every candidate URL, even
\* when the current date differs between the runs
C2_SameFingerprints ==
    \A i \in DOMAIN mlog : \A j \in DOMAIN mlog :
        /\ mlog[i].run # mlog[j].run
        /\ mlog[i].url = mlog[j].url
        /\ mlog[i].fetch # "unrecorded" /\ mlog[j].fetch # "unrecorded"
        /\ mlog[i].fetch = mlog[j].fetch
        => mlog[i].handed.content_hash = mlog[j].handed.content_hash

\* the URLs of the iterations a run made for source s, in order
RECURSIVE LoggedUrls(_, _, _)
LoggedUrls(log, run, s) ==
    IF log = <<>> THEN <<>>
    ELSE (IF Head(log).run = run /\ Head(log).src = s THEN <<Head(log).url>>
          ELSE <<>>) \o LoggedUrls(Tail(log), run, s)

\* the candidates of source s that the run must have been through by now
DueUrls(s) ==
    IF mpc = "cand" /\ s = msrc THEN SubSeq(mdisc[s], 1, mk - 1) ELSE mdisc[s]

\* C3: an exception raised while one candidate is extracted or upserted
\* never ends the run: the candidates of each source are gone through once
\* each, in discovery order, whichever of them fail, and the run goes on to
\* the sources that follow
C3_CandidateFailureContained ==
    /\ mabort # "candidate"
    /\ mpc = "cand" => msrc = Len(mdisc) /\ mcand = mdisc[msrc] /\ mk <= Len(mcand) + 1
    /\ mpc \in {"source", "discover"} => Len(mdisc) = msrc - 1
    /\ \A s \in 1..Len(mdisc) : LoggedUrls(mlog, mrun, s) = DueUrls(s)
    /\ mpc = "done" =>
          /\ Len(mdisc) = Len(START_SOURCES)
          /\ \A s \in 1..Len(START_SOURCES) :
                \E row \in msources : row.url = START_SOURCES[s].url

\* a run reached its end although its first candidate failed: the second
\* candidate of that source and the candidate of a later source were stored
C3_Witness ==
    /\ mpc = "done" /\ mrun = 1 /\ Len(mlog) = 3
    /\ mlog[1].src = 4 /\ mlog[1].outcome = "failed"
    /\ mlog[2].src = 4 /\ mlog[2].outcome = "upserted"
    /\ mlog[3].src = 9 /\ mlog[3].outcome = "upserted"

\* C4: a run is only ever ended early by the missing configuration
C4_OnlyConfigAborts == mpc = "aborted" => mabort = "config"

\* the last iteration in which the table took a record for URL u
LastStored(u) ==
    CHOOSE i \in DOMAIN mlog :
        /\ mlog[i].url = u /\ mlog[i].fetch # "unrecorded"
        /\ \A j \in DOMAIN mlog :
              mlog[j].url = u /\ mlog[j].fetch # "unrecorded" => j <= i

\* C10: when the fetch of a detail page obtains nothing, the record handed
\* to upsert_appel for that URL carries the URL, the sentinel title, status
\* unknown and no other field, and it replaces the row stored for that URL
C10_AbsentPlaceholder ==
    /\ \A i \in DOMAIN mlog :
          mlog[i].fetch = "absent" =>
             /\ mlog[i].handed.detail_url = mlog[i].url
             /\ mlog[i].handed.titre = S_sans_titre
             /\ mlog[i].handed.statut = "unknown"
             /\ \A f \in {"organisme", "reference", "date_publication",
                          "date_limite", "extrait"} : mlog[i].handed[f] = None
    /\ \A x \in mstore :
          /\ \E i \in DOMAIN mlog :
                mlog[i].url = x.detail_url /\ mlog[i].fetch # "unrecorded"
          /\ x = mlog[LastStored(x.detail_url)].handed
    /\ \A i \in DOMAIN mlog :
          mlog[i].fetch # "unrecorded" =>
             \E x \in mstore : x.detail_url = mlog[i].url

\* the row a first run stored from the page of a URL has been replaced by
\* the placeholder of a second run whose fetch obtained nothing
C10_Witness ==
    \E i \in DOMAIN mlog : \E j \in DOMAIN mlog :
        /\ i < j /\ mlog[i].url = mlog[j].url
        /\ mlog[i].fetch = "page" /\ mlog[j].fetch = "absent"
        /\ mlog[i].handed.titre # S_sans_titre
        /\ mlog[i].handed \notin mstore
        /\ mlog[j].handed \in mstore

=============================================================================
